---- MODULE Spec2Model ----
(***************************************************************************)
(* A model of magiskboot_go: the cpio archive engine (load, mutate, dump,  *)
(* backup, restore, ramdisk patch), the name normalisation it relies on    *)
(* and the fstab patcher the ramdisk patch calls.                          *)
(*                                                                         *)
(* Strings and byte slices are sequences of byte values (0..255), so that  *)
(* sorting, prefix tests, hex formatting and parsing are computed the way  *)
(* the Go code computes them.                                              *)
(***************************************************************************)
EXTENDS Integers, Sequences, FiniteSets, TLC

VARIABLES
    Keys,       \* Cpio.Keys: the name sequence of the archive being edited
    Entries,    \* Cpio.Entries: name -> CpioEntry
    file,       \* the bytes of the archive file on disk (cli.File)
    pc,         \* position of the cpio process
    nops,       \* number of mutators applied so far
    last,       \* the last operation, its arguments and the archive before it
    hist,       \* the operations so far, oldest first
    nx,         \* norm_path driver: the current string
    nfirst,     \* norm_path driver: the result of the first application
    napplied,   \* norm_path driver: how often norm_path has been applied
    cmds,       \* CpioCommands: cli.Commonds, the commands still as typed
    ci,         \* CpioCommands: index of the next command
    written,    \* CpioCommands: how often the archive file has been written
    exit,       \* CpioCommands: the exit status, -1 while running
    fin,        \* function driver: the input
    fout,       \* function driver: the result
    fdone,      \* function driver: which function has been applied
    fs,         \* the files of the host, path -> bytes
    cst         \* the locals of the running call (Compress, extract, split)

cpioVars == <<Keys, Entries, file, pc, nops, last, hist>>
normVars == <<nx, nfirst, napplied>>
cliVars == <<cmds, ci, written, exit>>
funVars == <<fin, fout, fdone>>
compVars == <<fs, cst>>

vars == <<cpioVars, normVars, cliVars, funVars, compVars>>

\* What the cpio process leaves alone.
notCpio == <<normVars, cliVars, funVars, compVars>>

\* The parts of the state a specification does not use stay as they are
\* here.
NormIdle == nx = <<>> /\ nfirst = <<>> /\ napplied = 0
CliIdle == cmds = <<>> /\ ci = 0 /\ written = 0 /\ exit = -1
FunIdle == fin = <<>> /\ fout = <<>> /\ fdone = "none"
CompIdle == fs = <<>> /\ cst = <<>>

(***************************************************************************)
(* Bytes and strings                                                       *)
(***************************************************************************)

\* The printable ASCII characters in code order, from 32 (space) to 126
\* (the slot of code 96 holds a name, not the character).
AsciiTable ==
    << " ", "!", "\"", "#", "$", "%", "&", "'", "(", ")", "*", "+", ",", "-",
       ".", "/", "0", "1", "2", "3", "4", "5", "6", "7", "8", "9", ":", ";",
       "<", "=", ">", "?", "@", "A", "B", "C", "D", "E", "F", "G", "H", "I",
       "J", "K", "L", "M", "N", "O", "P", "Q", "R", "S", "T", "U", "V", "W",
       "X", "Y", "Z", "[", "\\", "]", "^", "_", "backquote", "a", "b", "c", "d", "e",
       "f", "g", "h", "i", "j", "k", "l", "m", "n", "o", "p", "q", "r", "s",
       "t", "u", "v", "w", "x", "y", "z", "{", "|", "}", "~" >>

\* The byte value of a one-character string.
Ord(c) == 31 + (CHOOSE i \in 1..Len(AsciiTable) : AsciiTable[i] = c)

\* The bytes the code names as character literals.
ByteSlash == Ord("/")
ByteDot == Ord(".")
ByteHash == Ord("#")
ByteComma == Ord(",")
ByteDigit0 == Ord("0")
ByteDigit9 == Ord("9")
ByteLowerA == Ord("a")
ByteLowerF == Ord("f")
ByteUpperA == Ord("A")
ByteUpperF == Ord("F")

\* A Go string literal, written as a tuple of its characters.
Str(t) == [i \in 1..Len(t) |-> Ord(t[i])]

\* strings.HasPrefix / bytes.HasPrefix
HasPrefix(s, p) == Len(p) <= Len(s) /\ SubSeq(s, 1, Len(p)) = p

\* strings.HasSuffix
HasSuffix(s, p) ==
    Len(p) <= Len(s) /\ SubSeq(s, Len(s) - Len(p) + 1, Len(s)) = p

\* Go's string order (bytewise lexicographic), as used by sort.Strings,
\* slices.Sort and cmp.Compare.
RECURSIVE StrLess(_, _)
StrLess(a, b) ==
    IF b = <<>> THEN FALSE
    ELSE IF a = <<>> THEN TRUE
    ELSE IF a[1] # b[1] THEN a[1] < b[1]
    ELSE StrLess(Tail(a), Tail(b))

\* cmp.Compare on strings
Compare(a, b) == IF StrLess(a, b) THEN -1 ELSE IF a = b THEN 0 ELSE 1

RECURSIVE InsertSorted(_, _)
InsertSorted(s, x) ==
    IF s = <<>> THEN <<x>>
    ELSE IF StrLess(x, s[1]) THEN <<x>> \o s
    ELSE <<s[1]>> \o InsertSorted(Tail(s), x)

\* sort.Strings / slices.Sort: the same strings in ascending order
\* (equal strings stay, each as often as it occurred).
RECURSIVE SortStrings(_)
SortStrings(s) ==
    IF s = <<>> THEN <<>>
    ELSE InsertSorted(SortStrings(Tail(s)), s[1])

\* strings.Split / bytes.Split on a single separator byte: always at
\* least one piece.
RECURSIVE SplitFrom(_, _, _)
SplitFrom(s, sep, cur) ==
    IF s = <<>> THEN <<cur>>
    ELSE IF s[1] = sep THEN <<cur>> \o SplitFrom(Tail(s), sep, <<>>)
    ELSE SplitFrom(Tail(s), sep, Append(cur, s[1]))

Split(s, sep) == SplitFrom(s, sep, <<>>)

\* strings.Join / bytes.Join with a separator string
RECURSIVE Join(_, _)
Join(parts, sep) ==
    IF parts = <<>> THEN <<>>
    ELSE IF Len(parts) = 1 THEN parts[1]
    ELSE parts[1] \o sep \o Join(Tail(parts), sep)

\* strings.TrimLeft(s, "/"): every leading '/' removed
RECURSIVE TrimLeftSlash(_)
TrimLeftSlash(s) ==
    IF s # <<>> /\ s[1] = ByteSlash THEN TrimLeftSlash(Tail(s)) ELSE s

\* strings.TrimRight(s, "\x00"): every trailing NUL removed
RECURSIVE TrimRightNul(_)
TrimRightNul(s) ==
    IF s # <<>> /\ s[Len(s)] = 0
    THEN TrimRightNul(SubSeq(s, 1, Len(s) - 1)) ELSE s

\* slices.Contains
Contains(s, x) == \E i \in 1..Len(s) : s[i] = x

(***************************************************************************)
(* Name normalisation                                                      *)
(***************************************************************************)

Dot == Str(<<".">>)
DotDot == Str(<<".", ".">>)
Slash == Str(<<"/">>)

\* path.Clean's pass over the '/'-separated elements: empty elements and
\* "." are dropped; ".." removes the element before it, is dropped at the
\* root of a rooted path and is kept at the start of a relative one.
RECURSIVE CleanElems(_, _, _)
CleanElems(elems, out, rooted) ==
    IF elems = <<>> THEN out
    ELSE LET e == elems[1]
             rest == Tail(elems)
         IN IF e = <<>> \/ e = Dot THEN CleanElems(rest, out, rooted)
            ELSE IF e = DotDot
                 THEN IF out # <<>> /\ out[Len(out)] # DotDot
                      THEN CleanElems(rest, SubSeq(out, 1, Len(out) - 1), rooted)
                      ELSE IF rooted THEN CleanElems(rest, out, rooted)
                      ELSE CleanElems(rest, Append(out, e), rooted)
            ELSE CleanElems(rest, Append(out, e), rooted)

\* path.Clean
Clean(p) ==
    IF p = <<>> THEN Dot
    ELSE LET rooted == p[1] = ByteSlash
             out == Join(CleanElems(Split(p, ByteSlash), <<>>, rooted), Slash)
         IN IF rooted THEN Slash \o out
            ELSE IF out = <<>> THEN Dot ELSE out

\* func norm_path(p string) string
norm_path(p) == TrimLeftSlash(Clean(p))

(***************************************************************************)
(* norm_path driver: every string over a small alphabet, normalised twice  *)
(***************************************************************************)

MaxPathLen == 5

PathAlphabet == {ByteSlash, ByteDot, ByteLowerA}

PathInputs == UNION {[1..n -> PathAlphabet] : n \in 0..MaxPathLen}

NormInit ==
    /\ nx \in PathInputs
    /\ nfirst = <<>>
    /\ napplied = 0

NormApply ==
    /\ napplied < 2
    /\ nx' = norm_path(nx)
    /\ nfirst' = IF napplied = 0 THEN norm_path(nx) ELSE nfirst
    /\ napplied' = napplied + 1
    /\ UNCHANGED <<cpioVars, cliVars, funVars, compVars>>

(***************************************************************************)
(* Cpio entries and the newc wire format                                   *)
(***************************************************************************)

S_IFBLK == 24576
S_IFCHR == 8192
S_IFDIR == 16384
S_IFLNK == 40960
S_IFMT == 61440
S_IFREG == 32768

\* mode & S_IFMT: bits 12 to 15 of the mode
FileType(mode) == ((mode \div 4096) % 16) * 4096

\* type CpioEntry struct
CpioEntry(mode, uid, gid, rmaj, rmin, data) ==
    [Mode |-> mode, Uid |-> uid, Gid |-> gid,
     RDevMajor |-> rmaj, RDevMinor |-> rmin, Data |-> data]

\* The zero value CpioEntry{}: what a Go map lookup of an absent key gives.
ZeroEntry == CpioEntry(0, 0, 0, 0, 0, <<>>)

\* c.Entries[name] read as a value
EntryAt(E, name) == IF name \in DOMAIN E THEN E[name] ELSE ZeroEntry

\* c.Entries[name] = entry
PutEntry(E, name, entry) ==
    [k \in DOMAIN E \cup {name} |-> IF k = name THEN entry ELSE E[k]]

\* delete(c.Entries, name)
DeleteEntry(E, name) == [k \in DOMAIN E \ {name} |-> E[k]]

\* NewCpio(): no entries
NoEntries == [k \in {} |-> ZeroEntry]

\* func align_4(x uint64) uint64
align_4(x) == ((x + 3) \div 4) * 4

Zeros(n) == [i \in 1..n |-> 0]

\* writeZeros: the zero bytes that pad a stream of pos bytes to 4
writeZeros(pos) == Zeros(align_4(pos) - pos)

HexDigit(d) == IF d < 10 THEN ByteDigit0 + d ELSE ByteLowerA + (d - 10)

\* fmt's %08x of a value below 2^32
Hex8(n) == [i \in 1..8 |-> HexDigit((n \div (16 ^ (8 - i))) % 16)]

CpioMagic == Str(<<"0", "7", "0", "7", "0", "1">>)

Trailer == Str(<<"T", "R", "A", "I", "L", "E", "R", "!", "!", "!">>)

\* The header Dump formats for one record.
DumpHeader(inode, entry, namesize) ==
    CpioMagic \o Hex8(inode) \o Hex8(entry.Mode) \o Hex8(entry.Uid)
        \o Hex8(entry.Gid) \o Hex8(1) \o Hex8(0) \o Hex8(Len(entry.Data))
        \o Hex8(0) \o Hex8(0) \o Hex8(entry.RDevMajor)
        \o Hex8(entry.RDevMinor) \o Hex8(namesize) \o Hex8(0)

\* One record of Dump's loop, appended to the out bytes written so far
\* (pos in the code is the number of bytes written, Len(out)).
DumpRecord(out, inode, name, entry) ==
    LET h == out \o DumpHeader(inode, entry, Len(name) + 1) \o name \o <<0>>
        d == h \o writeZeros(Len(h)) \o entry.Data
    IN d \o writeZeros(Len(d))

RECURSIVE DumpLoop(_, _, _, _, _)
DumpLoop(K, E, i, inode, out) ==
    IF i > Len(K)
    THEN LET t == out \o DumpHeader(inode, CpioEntry(493, 0, 0, 0, 0, <<>>), 11)
                      \o Trailer \o <<0>>
         IN t \o writeZeros(Len(t))
    ELSE DumpLoop(K, E, i + 1, inode + 1,
                  DumpRecord(out, inode, K[i], EntryAt(E, K[i])))

FirstInode == 300000

\* func (c *Cpio) Dump(path string) error: the bytes written to path
Dump(K, E) == DumpLoop(K, E, 1, FirstInode, <<>>)

\* The value of one hex digit byte, -1 when it is none.
HexVal(b) ==
    IF b >= ByteDigit0 /\ b <= ByteDigit9 THEN b - ByteDigit0
    ELSE IF b >= ByteLowerA /\ b <= ByteLowerF THEN b - ByteLowerA + 10
    ELSE IF b >= ByteUpperA /\ b <= ByteUpperF THEN b - ByteUpperA + 10
    ELSE -1

RECURSIVE ParseHex(_, _)
ParseHex(s, acc) ==
    IF s = <<>> THEN acc
    ELSE IF HexVal(s[1]) < 0 THEN -1
    ELSE ParseHex(Tail(s), acc * 16 + HexVal(s[1]))

\* func x8u(x []byte) (uint32, error): the value, -1 for an error
x8u(x) == ParseHex(x, 0)

\* xx8u and "file_sz, _ := x8u(..)": the error is dropped, the value is 0
xx8u(x) == IF x8u(x) < 0 THEN 0 ELSE x8u(x)

\* binary.Size(CpioHeader{}): the magic and 13 fields of 8 bytes
hdr_sz == 6 + 13 * 8

\* Field number f (1..13) of the header that starts at offset pos.
HdrField(data, pos, f) ==
    SubSeq(data, pos + 6 + (f - 1) * 8 + 1, pos + 6 + f * 8)

\* bytes.Index(data[pos:], "070701"): the offset from pos, -1 when absent
IndexMagic(data, pos) ==
    LET hits == {i \in pos..(Len(data) - 6) :
                    SubSeq(data, i + 1, i + 6) = CpioMagic}
    IN IF hits = {} THEN -1
       ELSE (CHOOSE i \in hits : \A j \in hits : i <= j) - pos

LoadResult(K, E, err) == [Keys |-> K, Entries |-> E, err |-> err]

\* The loop of LoadFromData from offset pos on, with the keys and entries
\* stored so far. err is "nil", the error returned, or "panic" for a slice
\* expression that runs past the end of data.
RECURSIVE LoadLoop(_, _, _, _)
LoadLoop(data, pos, K, E) ==
    IF pos >= Len(data) THEN LoadResult(K, E, "nil")
    ELSE IF pos + hdr_sz > Len(data) THEN LoadResult(K, E, "panic")
    ELSE IF SubSeq(data, pos + 1, pos + 6) # CpioMagic
         THEN LoadResult(K, E, "invalid cpio magic")
    ELSE LET p1 == pos + hdr_sz
             name_sz == x8u(HdrField(data, pos, 12))
         IN IF name_sz < 0 THEN LoadResult(K, E, "bad cpio header")
            ELSE IF p1 + name_sz > Len(data) THEN LoadResult(K, E, "panic")
            ELSE LET name == TrimRightNul(SubSeq(data, p1 + 1, p1 + name_sz))
                     p2 == align_4(p1 + name_sz)
                     file_sz == xx8u(HdrField(data, pos, 7))
                 IN IF name = Dot \/ name = DotDot
                    THEN LoadLoop(data, p2, K, E)
                    ELSE IF name = Trailer
                    THEN IF p2 > Len(data) THEN LoadResult(K, E, "panic")
                         ELSE IF IndexMagic(data, p2) < 0
                              THEN LoadResult(K, E, "nil")
                         ELSE LoadLoop(data, p2 + IndexMagic(data, p2), K, E)
                    ELSE IF p2 + file_sz > Len(data)
                         THEN LoadResult(K, E, "panic")
                    ELSE LoadLoop(data, align_4(p2 + file_sz),
                            Append(K, name),
                            PutEntry(E, name,
                                CpioEntry(xx8u(HdrField(data, pos, 2)),
                                          xx8u(HdrField(data, pos, 3)),
                                          xx8u(HdrField(data, pos, 4)),
                                          xx8u(HdrField(data, pos, 10)),
                                          xx8u(HdrField(data, pos, 11)),
                                          SubSeq(data, p2 + 1, p2 + file_sz))))

\* func (c *Cpio) LoadFromData(data []byte) error, on the archive (K, E)
LoadFromData(K, E, data) == LoadLoop(data, 0, K, E)

(***************************************************************************)
(* The archive and its mutators                                            *)
(***************************************************************************)

\* type Cpio struct: the two fields the operations work on
Cpio(K, E) == [Keys |-> K, Entries |-> E]

\* NewCpio()
NewCpio == Cpio(<<>>, NoEntries)

\* removeByValue (in Rm): the slice without the first element equal to
\* value; the slice itself when there is none.
RECURSIVE removeByValue(_, _)
removeByValue(slice, value) ==
    IF slice = <<>> THEN <<>>
    ELSE IF slice[1] = value THEN Tail(slice)
    ELSE <<slice[1]>> \o removeByValue(Tail(slice), value)

\* removeEntry (in Rm)
removeEntry(c, k) ==
    Cpio(removeByValue(c.Keys, k), DeleteEntry(c.Entries, k))

\* The recursive part of Rm: every entry whose name starts with prefix is
\* removed (the range over the map visits each such key once, in any
\* order; the removals do not depend on one another).
RECURSIVE RmPrefixed(_, _)
RmPrefixed(c, prefix) ==
    LET hit == {k \in DOMAIN c.Entries : HasPrefix(k, prefix)}
    IN IF hit = {} THEN c
       ELSE RmPrefixed(removeEntry(c, CHOOSE k \in hit : TRUE), prefix)

\* func (c *Cpio) Rm(path string, recursive bool)
Rm(c, path, recursive) ==
    LET p == norm_path(path)
        c1 == IF p \in DOMAIN c.Entries THEN removeEntry(c, p) ELSE c
    IN IF recursive THEN RmPrefixed(c1, p \o Slash) ELSE c1

\* func (c *Cpio) Exists(path string) bool
Exists(c, path) == Contains(c.Keys, path)

\* func (c *Cpio) addEntry(key string, entry CpioEntry)
addEntry(c, key, entry) ==
    Cpio(SortStrings(Append(c.Keys, key)), PutEntry(c.Entries, key, entry))

\* Bitwise or of two values below 2^bits.
RECURSIVE BitOr(_, _, _)
BitOr(a, b, bits) ==
    IF bits = 0 THEN 0
    ELSE (IF a % 2 = 1 \/ b % 2 = 1 THEN 1 ELSE 0)
         + 2 * BitOr(a \div 2, b \div 2, bits - 1)

\* mode | flag on uint32 values (the model's modes are below 2^16)
ModeOr(mode, flag) == BitOr(mode, flag, 16)

\* A file of the host, as os.Stat and os.ReadFile see it in Add.
HostFile(kind, content, major, minor) ==
    [kind |-> kind, content |-> content, major |-> major, minor |-> minor]

\* func (c *Cpio) Add(mode uint32, path string, file string) error:
\* the archive after it and what the call did: "nil", the error returned,
\* or "fatal" for log.Fatalln.
Add(c, mode, path, f) ==
    IF HasSuffix(path, Slash)
    THEN [c |-> c, res |-> "path cannot end with / for add"]
    ELSE IF f.kind = "missing" THEN [c |-> c, res |-> "stat error"]
    ELSE IF f.kind = "regular"
    THEN [c |-> addEntry(c, norm_path(path),
                    CpioEntry(ModeOr(mode, S_IFREG), 0, 0, 0, 0, f.content)),
          res |-> "nil"]
    ELSE IF f.kind = "device"
    THEN [c |-> addEntry(c, norm_path(path),
                    CpioEntry(ModeOr(mode, S_IFBLK), 0, 0,
                              f.major, f.minor, <<>>)),
          res |-> "nil"]
    ELSE [c |-> c, res |-> "fatal"]

\* func (c *Cpio) Mkdir(mode uint32, dir string)
Mkdir(c, mode, dir) ==
    addEntry(c, norm_path(dir),
             CpioEntry(ModeOr(mode, S_IFDIR), 0, 0, 0, 0, <<>>))

\* func (c *Cpio) Ln(src, dst string)
Ln(c, src, dst) ==
    addEntry(c, norm_path(dst),
             CpioEntry(S_IFLNK, 0, 0, 0, 0,
                       IF HasPrefix(src, Slash)
                       THEN Slash \o norm_path(src) ELSE norm_path(src)))

\* The keys different from k, in order (the newk loop of Mv).
RECURSIVE KeysWithout(_, _)
KeysWithout(K, k) ==
    IF K = <<>> THEN <<>>
    ELSE IF K[1] = k THEN KeysWithout(Tail(K), k)
    ELSE <<K[1]>> \o KeysWithout(Tail(K), k)

\* func (c *Cpio) Mv(from, to string) error (it always returns nil)
Mv(c, from, to) ==
    LET f == norm_path(from)
        t == norm_path(to)
    IN addEntry(Cpio(KeysWithout(c.Keys, f), DeleteEntry(c.Entries, f)),
                t, EntryAt(c.Entries, f))

(***************************************************************************)
(* The fstab patcher                                                       *)
(***************************************************************************)

verityPatterns ==
    << Str(<<"v", "e", "r", "i", "f", "y", "a", "t", "b", "o", "o", "t">>),
       Str(<<"v", "e", "r", "i", "f", "y">>),
       Str(<<"a", "v", "b", "_", "k", "e", "y", "s">>),
       Str(<<"a", "v", "b">>),
       Str(<<"s", "u", "p", "p", "o", "r", "t", "_", "s", "c", "f", "s">>),
       Str(<<"f", "s", "v", "e", "r", "i", "t", "y">>) >>

encryptionPatterns ==
    << Str(<<"f", "o", "r", "c", "e", "e", "n", "c", "r", "y", "p", "t">>),
       Str(<<"f", "o", "r", "c", "e", "f", "d", "e", "o", "r", "f", "b", "e">>),
       Str(<<"f", "i", "l", "e", "e", "n", "c", "r", "y", "p", "t", "i", "o", "n">>) >>

\* unicode.IsSpace on an ASCII byte: \t \n \v \f \r and space
IsSpace(b) == b \in {9, 10, 11, 12, 13, 32}

\* bytes.Fields: the maximal runs of non-space bytes
RECURSIVE FieldsFrom(_, _)
FieldsFrom(s, cur) ==
    IF s = <<>> THEN (IF cur = <<>> THEN <<>> ELSE <<cur>>)
    ELSE IF IsSpace(s[1])
         THEN (IF cur = <<>> THEN <<>> ELSE <<cur>>) \o FieldsFrom(Tail(s), <<>>)
    ELSE FieldsFrom(Tail(s), Append(cur, s[1]))

Fields(line) == FieldsFrom(line, <<>>)

\* The flags that start with none of the patterns, in order.
RECURSIVE KeepFlags(_, _)
KeepFlags(flags, patterns) ==
    IF flags = <<>> THEN <<>>
    ELSE (IF \E i \in 1..Len(patterns) : HasPrefix(flags[1], patterns[i])
          THEN <<>> ELSE <<flags[1]>>)
         \o KeepFlags(Tail(flags), patterns)

Space == Str(<<" ">>)
Comma == Str(<<",">>)

\* Whether patchFstab indexes fields[4] of a line that has only 4 fields
\* (a Go run-time panic: index out of range).
LinePanics(line) ==
    /\ line # <<>>
    /\ line[1] # ByteHash
    /\ Len(Fields(line)) = 4

\* One line of patchFstab's loop, for a line that does not panic.
PatchLine(line, patterns) ==
    IF line = <<>> \/ line[1] = ByteHash THEN line
    ELSE LET fields == Fields(line)
         IN IF Len(fields) < 4 THEN line
            ELSE LET newFlags == KeepFlags(Split(fields[5], ByteComma), patterns)
                     newLine == Join(<<Join(SubSeq(fields, 1, 4), Space),
                                       Join(newFlags, Comma)>>, Space)
                 IN IF Len(fields) > 5
                    THEN newLine \o Space
                            \o Join(SubSeq(fields, 6, Len(fields)), Space)
                    ELSE newLine

\* func patchFstab(fstabContent []byte, patterns [][]byte) []byte:
\* the bytes returned, or a panic.
patchFstab(fstabContent, patterns) ==
    LET lines == Split(fstabContent, 10)
    IN IF \E i \in 1..Len(lines) : LinePanics(lines[i])
       THEN [panic |-> TRUE, data |-> <<>>]
       ELSE [panic |-> FALSE,
             data |-> Join([i \in 1..Len(lines) |-> PatchLine(lines[i], patterns)],
                           <<10>>)]

\* func PatchVerity(fstabContent []byte) []byte
PatchVerity(fstabContent) == patchFstab(fstabContent, verityPatterns)

\* func PatchEncryption(fstabContent []byte) []byte
PatchEncryption(fstabContent) == patchFstab(fstabContent, encryptionPatterns)

(***************************************************************************)
(* Ramdisk patch, backup and restore                                       *)
(***************************************************************************)

BackupDir == Str(<<".", "b", "a", "c", "k", "u", "p">>)
BackupPrefix == BackupDir \o Slash
RmListName == BackupPrefix \o Str(<<".", "r", "m", "l", "i", "s", "t">>)
MagiskName == BackupPrefix \o Str(<<".", "m", "a", "g", "i", "s", "k">>)
XzSuffix == Str(<<".", "x", "z">>)
FstabPrefix == Str(<<"f", "s", "t", "a", "b">>)
TwrpPrefix == Str(<<"t", "w", "r", "p">>)
RecoveryPrefix == Str(<<"r", "e", "c", "o", "v", "e", "r", "y">>)
VerityKey == Str(<<"v", "e", "r", "i", "t", "y", "_", "k", "e", "y">>)

\* The fstab closure of Patch.
IsFstab(name, entry, keep_verity, keep_force_encrypt) ==
    /\ ~keep_verity \/ ~keep_force_encrypt
    /\ FileType(entry.Mode) = S_IFREG
    /\ ~HasPrefix(name, BackupDir)
    /\ ~HasPrefix(name, TwrpPrefix)
    /\ ~HasPrefix(name, RecoveryPrefix)
    /\ HasPrefix(name, FstabPrefix)

\* The array behind c.Keys after Rm took name out of the keys: append in
\* removeByValue moves the keys after the first occurrence one place down,
\* in place; the place of the last key keeps its old content.
ShiftArray(arr, K, name) ==
    IF ~Contains(K, name) THEN arr
    ELSE LET j == CHOOSE i \in 1..Len(K) :
                    K[i] = name /\ \A h \in 1..(i - 1) : K[h] # name
         IN [k \in 1..Len(arr) |->
                IF k >= j /\ k < Len(K) THEN arr[k + 1] ELSE arr[k]]

\* The loop of Patch from index i on. The range statement walks the array
\* that c.Keys had when the loop began (arr), which Rm changes under it.
\* The patched bytes are put in the loop's copy of the entry and nowhere
\* else: c.Entries[name] keeps its data.
RECURSIVE PatchLoop(_, _, _, _, _)
PatchLoop(c, arr, i, keep_verity, keep_force_encrypt) ==
    IF i > Len(arr) THEN [c |-> c, res |-> "nil"]
    ELSE LET name == arr[i]
             entry == EntryAt(c.Entries, name)
             fstab == IsFstab(name, entry, keep_verity, keep_force_encrypt)
             v == IF ~keep_verity /\ fstab
                  THEN PatchVerity(entry.Data)
                  ELSE [panic |-> FALSE, data |-> entry.Data]
             rmkey == ~keep_verity /\ ~fstab /\ name = VerityKey
             c1 == IF rmkey THEN Rm(c, name, FALSE) ELSE c
             arr1 == IF rmkey /\ name \in DOMAIN c.Entries
                     THEN ShiftArray(arr, c.Keys, name) ELSE arr
             e == IF ~keep_force_encrypt /\ fstab /\ ~v.panic
                  THEN PatchEncryption(v.data)
                  ELSE [panic |-> FALSE, data |-> v.data]
         IN IF v.panic \/ e.panic THEN [c |-> c1, res |-> "panic"]
            ELSE PatchLoop(c1, arr1, i + 1, keep_verity, keep_force_encrypt)

\* func (c *Cpio) Patch(), with the two flags CheckEnv reads
Patch(c, keep_verity, keep_force_encrypt) ==
    PatchLoop(c, c.Keys, 1, keep_verity, keep_force_encrypt)

TrueText == Str(<<"t", "r", "u", "e">>)

\* func CheckEnv(key string) bool, given the value the environment holds
\* for the key (the empty string when it holds none)
CheckEnv(value) == value = TrueText

\* func (entry *CpioEntry) Compress() bool: _xz hands the writer a buffer
\* of its own, and the slice put in entry.Data is the empty one made
\* before it.
Compress(entry) ==
    IF FileType(entry.Mode) # S_IFREG THEN [ok |-> FALSE, entry |-> entry]
    ELSE [ok |-> TRUE, entry |-> [entry EXCEPT !.Data = <<>>]]

XzMagic == <<253, 55, 122, 88, 90, 0>>

\* The stream flags xz.NewReader accepts together with their CRC32.
XzFlagsCrc ==
    { <<0, 0, 255, 18, 217, 65>>, <<0, 1, 105, 34, 222, 54>>,
      <<0, 4, 230, 214, 180, 70>>, <<0, 10, 225, 251, 12, 161>> }

\* Whether xz.NewReader, which reads the 12-byte stream header, succeeds.
XzHeaderOK(data) ==
    /\ Len(data) >= 12
    /\ SubSeq(data, 1, 6) = XzMagic
    /\ SubSeq(data, 7, 12) \in XzFlagsCrc

\* func (entry *CpioEntry) Decompress() bool: _unxz reads into a slice of
\* length 0, which then becomes entry.Data.
Decompress(entry) ==
    IF FileType(entry.Mode) # S_IFREG THEN [ok |-> FALSE, entry |-> entry]
    ELSE IF ~XzHeaderOK(entry.Data) THEN [ok |-> FALSE, entry |-> entry]
    ELSE [ok |-> TRUE, entry |-> [entry EXCEPT !.Data = <<>>]]

\* The first loop of Restore from index i on: the rm-list bytes and the
\* backups map collected so far.
RECURSIVE RestoreCollect(_, _, _, _)
RestoreCollect(c, i, rm_list, backups) ==
    IF i > Len(c.Keys) THEN [rm_list |-> rm_list, backups |-> backups]
    ELSE LET name == c.Keys[i]
             entry == EntryAt(c.Entries, name)
         IN IF ~HasPrefix(name, BackupPrefix)
            THEN RestoreCollect(c, i + 1, rm_list, backups)
            ELSE IF name = RmListName
            THEN RestoreCollect(c, i + 1, rm_list \o entry.Data, backups)
            ELSE IF name = MagiskName
            THEN RestoreCollect(c, i + 1, rm_list, backups)
            ELSE LET d == IF HasSuffix(name, XzSuffix)
                          THEN Decompress(entry)
                          ELSE [ok |-> FALSE, entry |-> entry]
                     new_name == IF d.ok
                                 THEN SubSeq(name, 9, Len(name) - 3)
                                 ELSE SubSeq(name, 9, Len(name))
                 IN RestoreCollect(c, i + 1, rm_list,
                                   PutEntry(backups, new_name, d.entry))

\* c.Rm(rm, false) for every non-empty piece of the rm-list, in order
RECURSIVE RmEach(_, _)
RmEach(c, names) ==
    IF names = <<>> THEN c
    ELSE RmEach(IF names[1] # <<>> THEN Rm(c, names[1], FALSE) ELSE c,
                Tail(names))

\* "for k, v := range backups { c.Keys = append(c.Keys, k);
\*  c.Entries[k] = v }" and the slices.Sort(c.Keys) after it
RECURSIVE InsertAll(_, _)
InsertAll(c, backups) ==
    IF DOMAIN backups = {} THEN Cpio(SortStrings(c.Keys), c.Entries)
    ELSE LET k == CHOOSE x \in DOMAIN backups : TRUE
         IN InsertAll(Cpio(Append(c.Keys, k),
                           PutEntry(c.Entries, k, backups[k])),
                      DeleteEntry(backups, k))

\* func (c *Cpio) Restore() error
Restore(c) ==
    LET got == RestoreCollect(c, 1, <<>>, NoEntries)
        c1 == Rm(c, BackupDir, FALSE)
    IN IF got.rm_list = <<>> /\ DOMAIN got.backups = {}
       THEN Cpio(c1.Keys, NoEntries)
       ELSE InsertAll(RmEach(c1, Split(got.rm_list, 0)), got.backups)

\* backupFunc (in Backup): the entry is stored under name, not under the
\* backupPath it computes and logs.
backupFunc(backups, name, entry, skip_compress) ==
    LET z == IF skip_compress THEN [ok |-> FALSE, entry |-> entry]
             ELSE Compress(entry)
    IN PutEntry(backups, name, z.entry)

\* recordFunc (in Backup)
recordFunc(rm_list, name) == rm_list \o name \o <<0>>

\* The merge of Backup over the two key sequences, from the indices l and
\* r on (both loops that follow the lockstep loop included).
RECURSIVE BackupMerge(_, _, _, _, _, _, _)
BackupMerge(o, c, l, r, backups, rm_list, skip_compress) ==
    IF l <= Len(o.Keys) /\ r <= Len(c.Keys)
    THEN LET lKey == o.Keys[l]
             rKey == c.Keys[r]
             re == EntryAt(c.Entries, rKey)
             le == EntryAt(o.Entries, lKey)
         IN IF Compare(lKey, rKey) = -1
            THEN BackupMerge(o, c, l + 1, r,
                    backupFunc(backups, lKey, le, skip_compress),
                    rm_list, skip_compress)
            ELSE IF Compare(lKey, rKey) = 0
            THEN BackupMerge(o, c, l + 1, r + 1,
                    IF re.Data # le.Data
                    THEN backupFunc(backups, lKey, le, skip_compress)
                    ELSE backups,
                    rm_list, skip_compress)
            ELSE BackupMerge(o, c, l, r + 1, backups,
                    recordFunc(rm_list, rKey), skip_compress)
    ELSE IF l <= Len(o.Keys)
    THEN BackupMerge(o, c, l + 1, r,
            backupFunc(backups, o.Keys[l], EntryAt(o.Entries, o.Keys[l]),
                       skip_compress),
            rm_list, skip_compress)
    ELSE IF r <= Len(c.Keys)
    THEN BackupMerge(o, c, l, r + 1, backups,
            recordFunc(rm_list, c.Keys[r]), skip_compress)
    ELSE [backups |-> backups, rm_list |-> rm_list]

\* func (c *Cpio) Backup(origin string, skip_compress bool) error, given
\* the archive o that loading the origin file produced
Backup(c, o, skip_compress) ==
    LET o1 == Rm(o, BackupDir, TRUE)
        c1 == Rm(c, BackupDir, TRUE)
        m == BackupMerge(o1, c1, 1, 1,
                PutEntry(NoEntries, BackupDir,
                         CpioEntry(S_IFDIR, 0, 0, 0, 0, <<>>)),
                <<>>, skip_compress)
        all == IF m.rm_list # <<>>
               THEN PutEntry(m.backups, RmListName,
                             CpioEntry(S_IFREG, 0, 0, 0, 0, m.rm_list))
               ELSE m.backups
    IN InsertAll(c1, all)

(***************************************************************************)
(* The inputs of the model                                                 *)
(***************************************************************************)

NameA == Str(<<"a">>)
NameAB == Str(<<"a", "/", "b">>)
NameB == Str(<<"b">>)
NameC == Str(<<"c">>)
NameFstab == FstabPrefix \o Str(<<".", "q">>)
NameInit == Str(<<"/", "i", "n", "i", "t">>)

\* "s m t o w,verify,forceencrypt=f": one fstab line with both kinds of flag
FstabText ==
    Str(<<"s", " ", "m", " ", "t", " ", "o", " ", "w", ",", "v", "e", "r",
          "i", "f", "y", ",", "f", "o", "r", "c", "e", "e", "n", "c", "r",
          "y", "p", "t", "=", "f">>)

DirEntry == CpioEntry(ModeOr(S_IFDIR, 493), 0, 0, 0, 0, <<>>)
RegEntry(data) == CpioEntry(ModeOr(S_IFREG, 420), 0, 0, 0, 0, data)

\* An archive given by its records in file order.
RECURSIVE FromRecords(_)
FromRecords(recs) ==
    IF recs = <<>> THEN NewCpio
    ELSE LET c == FromRecords(SubSeq(recs, 1, Len(recs) - 1))
             r == recs[Len(recs)]
         IN Cpio(Append(c.Keys, r[1]), PutEntry(c.Entries, r[1], r[2]))

\* A newc file holding the records in the order given.
NewcFile(recs) == Dump(FromRecords(recs).Keys, FromRecords(recs).Entries)

\* A stock ramdisk: a directory, a file in it, an fstab and the verity key.
StockFile ==
    NewcFile(<< <<NameA, DirEntry>>,
                <<NameAB, RegEntry(Str(<<"x">>))>>,
                <<NameFstab, RegEntry(FstabText)>>,
                <<VerityKey, RegEntry(Str(<<"k">>))>> >>)

\* A patched ramdisk: the backup directory with its marker, an rm-list
\* naming c and the backup of a/b, beside the current a/b and c.
PatchedFile ==
    NewcFile(<< <<BackupDir, CpioEntry(S_IFDIR, 0, 0, 0, 0, <<>>)>>,
                <<MagiskName, RegEntry(Str(<<"m">>))>>,
                <<RmListName, RegEntry(NameC \o <<0>>)>>,
                <<BackupPrefix \o NameAB, RegEntry(Str(<<"x">>))>>,
                <<NameAB, RegEntry(Str(<<"y">>))>>,
                <<NameC, RegEntry(Str(<<"n">>))>> >>)

\* An archive as other tools write it: names with a leading '/', not in
\* order.
ForeignFile ==
    NewcFile(<< <<NameB, RegEntry(Str(<<"x">>))>>,
                <<NameInit, RegEntry(Str(<<"i">>))>>,
                <<NameA, DirEntry>> >>)

Files == <<StockFile, PatchedFile, ForeignFile>>

\* What LoadFromData makes of each file, for Backup's origin.
Loaded == [i \in 1..Len(Files) |-> LoadFromData(<<>>, NoEntries, Files[i])]

\* 0755 for mkdir, 0644 for add
MkdirModes == {493}
AddModes == {420}

RmPaths == {NameA, BackupDir}
MkdirPaths == {NameA, DotDot, Dot}
LnPairs == {<<Slash \o NameA, Str(<<"l">>)>>}
MvPairs == {<<NameA, NameB>>, <<Str(<<"n", "x">>), NameB>>}
AddInputs ==
    { <<Slash \o NameAB, HostFile("regular", Str(<<"z">>), 0, 0)>>,
      <<NameFstab, HostFile("regular", FstabText, 0, 0)>>,
      <<NameC \o Slash, HostFile("regular", Str(<<"z">>), 0, 0)>>,
      <<NameC, HostFile("missing", <<>>, 0, 0)>>,
      <<NameC, HostFile("directory", <<>>, 0, 0)>>,
      <<NameC, HostFile("device", <<>>, 8, 1)>> }
KeepVerityValues == {TrueText, Str(<<"f", "a", "l", "s", "e">>)}
\* the empty string: the variable is not set
KeepForceEncryptValues == {TrueText, <<>>}

\* The most mutators one run applies.
MaxOps == 2

(***************************************************************************)
(* The cpio process                                                        *)
(***************************************************************************)

\* No host file: the operation reads none.
NoHost == HostFile("missing", <<>>, 0, 0)

\* The arguments of an operation: its strings, its booleans, its numbers
\* and the host file it reads.
Args(strs, flags, nums, host) ==
    [strs |-> strs, flags |-> flags, nums |-> nums, host |-> host]

NoArgs == Args(<<>>, <<>>, <<>>, NoHost)

\* What the last operation was: its name, its arguments, the archive it
\* started from, how it ended, and the operation before it.
Op(name, args, pre, res, prev) ==
    [op |-> name, args |-> args, pre |-> pre, res |-> res, prev |-> prev]

NoOp == [op |-> "none", args |-> NoArgs]

\* An entry of the history: the operation, its arguments, how it ended.
Done(name, args, res) == [op |-> name, args |-> args, res |-> res]

Prev == [op |-> last.op, args |-> last.args]

Now == Cpio(Keys, Entries)

CpioInit ==
    /\ Keys = <<>>
    /\ Entries = NoEntries
    /\ \E i \in 1..Len(Files) : file = Files[i]
    /\ pc = "new"
    /\ nops = 0
    /\ last = Op("NewCpio", NoArgs, NewCpio, "nil", NoOp)
    /\ hist = <<>>

\* LoadFromFile on a fresh archive: the error of LoadFromData is dropped,
\* a panic ends the process.
LoadFromFile ==
    /\ pc = "new"
    /\ LET r == LoadFromData(<<>>, NoEntries, file)
       IN /\ Keys' = r.Keys
          /\ Entries' = r.Entries
          /\ pc' = IF r.err = "panic" THEN "panic" ELSE "ready"
          /\ last' = Op("LoadFromFile", NoArgs, Now, r.err, Prev)
          /\ hist' = Append(hist, Done("LoadFromFile", NoArgs, r.err))
    /\ UNCHANGED <<file, nops, notCpio>>

\* The archive becomes c after one more mutator.
Mutate(name, args, c, res) ==
    /\ pc = "ready"
    /\ nops < MaxOps
    /\ Keys' = c.Keys
    /\ Entries' = c.Entries
    /\ nops' = nops + 1
    /\ pc' = IF res = "panic" THEN "panic"
             ELSE IF res = "fatal" THEN "exit" ELSE "ready"
    /\ last' = Op(name, args, Now, res, Prev)
    /\ hist' = Append(hist, Done(name, args, res))
    /\ UNCHANGED <<file, notCpio>>

DoRm(path, recursive) ==
    Mutate("Rm", Args(<<path>>, <<recursive>>, <<>>, NoHost),
           Rm(Now, path, recursive), "nil")

DoMkdir(mode, dir) ==
    Mutate("Mkdir", Args(<<dir>>, <<>>, <<mode>>, NoHost),
           Mkdir(Now, mode, dir), "nil")

DoLn(src, dst) ==
    Mutate("Ln", Args(<<src, dst>>, <<>>, <<>>, NoHost),
           Ln(Now, src, dst), "nil")

DoMv(from, to) ==
    Mutate("Mv", Args(<<from, to>>, <<>>, <<>>, NoHost),
           Mv(Now, from, to), "nil")

DoAdd(mode, path, f) ==
    LET r == Add(Now, mode, path, f)
    IN Mutate("Add", Args(<<path>>, <<>>, <<mode>>, f), r.c, r.res)

\* Backup loads the origin file into an archive of its own; a panic in
\* that load ends the process.
DoBackup(origin, skip_compress) ==
    IF Loaded[origin].err = "panic"
    THEN Mutate("Backup", Args(<<>>, <<skip_compress>>, <<origin>>, NoHost),
                Now, "panic")
    ELSE Mutate("Backup", Args(<<>>, <<skip_compress>>, <<origin>>, NoHost),
                Backup(Now, Cpio(Loaded[origin].Keys, Loaded[origin].Entries),
                       skip_compress),
                "nil")

DoRestore == Mutate("Restore", NoArgs, Restore(Now), "nil")

DoPatch(KEEPVERITY, KEEPFORCEENCRYPT) ==
    LET r == Patch(Now, CheckEnv(KEEPVERITY), CheckEnv(KEEPFORCEENCRYPT))
    IN Mutate("Patch", Args(<<KEEPVERITY, KEEPFORCEENCRYPT>>, <<>>, <<>>, NoHost),
              r.c, r.res)

\* Dump writes the archive over the file.
DoDump ==
    /\ pc = "ready"
    /\ file' = Dump(Keys, Entries)
    /\ pc' = "dumped"
    /\ last' = Op("Dump", NoArgs, Now, "nil", Prev)
    /\ hist' = Append(hist, Done("Dump", NoArgs, "nil"))
    /\ UNCHANGED <<Keys, Entries, nops, notCpio>>

\* A fresh archive is loaded from the file Dump wrote.
Reload ==
    /\ pc = "dumped"
    /\ LET r == LoadFromData(<<>>, NoEntries, file)
       IN /\ Keys' = r.Keys
          /\ Entries' = r.Entries
          /\ pc' = IF r.err = "panic" THEN "panic" ELSE "reloaded"
          /\ last' = Op("Reload", NoArgs, Now, r.err, Prev)
          /\ hist' = Append(hist, Done("Reload", NoArgs, r.err))
    /\ UNCHANGED <<file, nops, notCpio>>

Next ==
    \/ LoadFromFile
    \/ \E p \in RmPaths, r \in BOOLEAN : DoRm(p, r)
    \/ \E m \in MkdirModes, d \in MkdirPaths : DoMkdir(m, d)
    \/ \E l \in LnPairs : DoLn(l[1], l[2])
    \/ \E m \in MvPairs : DoMv(m[1], m[2])
    \/ \E m \in AddModes, a \in AddInputs : DoAdd(m, a[1], a[2])
    \/ \E o \in 1..Len(Files), n \in BOOLEAN : DoBackup(o, n)
    \/ DoRestore
    \/ \E kv \in KeepVerityValues, kf \in KeepForceEncryptValues : DoPatch(kv, kf)
    \/ DoDump
    \/ Reload

Init == CpioInit /\ NormIdle /\ CliIdle /\ FunIdle /\ CompIdle

Spec == Init /\ [][Next]_vars

\* The archive as constructed, with no file to load.
CpioIdle ==
    /\ Keys = <<>>
    /\ Entries = NoEntries
    /\ file = <<>>
    /\ pc = "new"
    /\ nops = 0
    /\ last = Op("NewCpio", NoArgs, NewCpio, "nil", NoOp)
    /\ hist = <<>>

\* The norm_path driver alone: the archive stays as constructed.
InitNorm == NormInit /\ CpioIdle /\ CliIdle /\ FunIdle /\ CompIdle

NextNorm == NormApply

SpecNorm == InitNorm /\ [][NextNorm]_vars

(***************************************************************************)
(* The claims                                                              *)
(***************************************************************************)

KeySet(K) == {K[i] : i \in 1..Len(K)}

\* Whether name is p or lies below p.
AtOrBelow(name, p) == name = p \/ HasPrefix(name, p \o Slash)

\* C1: the archive read back from the bytes Dump wrote has the same key
\* sequence as the archive dumped and, under every key, the same mode,
\* uid, gid, rdev numbers and data.
C1_RoundTrip ==
    last.op = "Reload" =>
        /\ last.res = "nil"
        /\ Keys = last.pre.Keys
        /\ \A k \in KeySet(Keys) :
              EntryAt(Entries, k) = EntryAt(last.pre.Entries, k)

\* C2: from the load on, whatever mutators follow, the keys are strictly
\* ascending: in Go's string order and without a repeated name.
C2_KeysStrictlyAscending ==
    pc # "new" => \A i \in 1..(Len(Keys) - 1) : StrLess(Keys[i], Keys[i + 1])

\* C3: a name is among the keys exactly if it has an entry; and a Restore
\* that found neither an rm-list nor a backup leaves no key and no entry.
C3_KeysMatchEntries ==
    /\ KeySet(Keys) = DOMAIN Entries
    /\ (/\ last.op = "Restore"
        /\ RestoreCollect(last.pre, 1, <<>>, NoEntries).rm_list = <<>>
        /\ DOMAIN RestoreCollect(last.pre, 1, <<>>, NoEntries).backups = {})
       => Keys = <<>> /\ DOMAIN Entries = {}

\* Whether a name is written the way the archive is to store names.
Normalized(name) ==
    /\ ~HasPrefix(name, Slash)
    /\ \A i \in 1..Len(Split(name, ByteSlash)) :
          Split(name, ByteSlash)[i] \notin {Dot, DotDot}

\* C4: after a load and after every mutator no key starts with '/' and no
\* key has a "." or ".." component.
C4_KeysNormalized == \A k \in KeySet(Keys) : Normalized(k)

\* C5: norm_path applied to its own result gives that result again.
C5_NormIdempotent == napplied = 2 => nx = nfirst

\* C6: after Rm(a, recursive=true) neither the keys nor the entries hold
\* norm(a) or a name below it, and every other key and entry is as before.
C6_RecursiveRm ==
    (last.op = "Rm" /\ last.args.flags = <<TRUE>>) =>
        LET a == norm_path(last.args.strs[1])
            kept == {k \in DOMAIN last.pre.Entries : ~AtOrBelow(k, a)}
        IN /\ \A k \in KeySet(Keys) \cup DOMAIN Entries : ~AtOrBelow(k, a)
           /\ DOMAIN Entries = kept
           /\ \A k \in kept : Entries[k] = last.pre.Entries[k]
           /\ KeySet(Keys) = {k \in KeySet(last.pre.Keys) : ~AtOrBelow(k, a)}

\* The origin archive without the backup entries it held.
OriginEntries(o) ==
    {k \in DOMAIN Loaded[o].Entries : ~HasPrefix(k, BackupPrefix)}

\* C7: an archive loaded from the origin file and then changed, backed up
\* against that origin with skip_compress and restored, has the keys of
\* the origin (less the origin's own .backup/ entries) and under each the
\* origin's data.
C7_BackupRestoreIdentity ==
    \A o \in 1..Len(Files) :
        (/\ last.op = "Restore"
         /\ last.prev.op = "Backup"
         /\ last.prev.args.nums = <<o>>
         /\ last.prev.args.flags = <<TRUE>>
         /\ file = Files[o])
        => /\ KeySet(Keys) = OriginEntries(o)
           /\ DOMAIN Entries = OriginEntries(o)
           /\ \A k \in OriginEntries(o) :
                 Entries[k].Data = Loaded[o].Entries[k].Data

\* The names Backup has to save: outside .backup, in the origin, and
\* absent from the archive or there with other data.
ToBackUp(o, c) ==
    {n \in DOMAIN Loaded[o].Entries :
        /\ ~AtOrBelow(n, BackupDir)
        /\ n \notin DOMAIN c.Entries
           \/ c.Entries[n].Data # Loaded[o].Entries[n].Data}

\* C8: after Backup(origin, skip_compress=true) every name to back up has
\* the origin's entry under .backup/<name>, and the entry under the name
\* itself is neither inserted nor replaced.
C8_BackupPlacement ==
    \A o \in 1..Len(Files) :
        (/\ last.op = "Backup"
         /\ last.args.nums = <<o>>
         /\ last.args.flags = <<TRUE>>
         /\ last.res = "nil")
        => \A n \in ToBackUp(o, last.pre) :
              /\ BackupPrefix \o n \in DOMAIN Entries
              /\ Entries[BackupPrefix \o n] = Loaded[o].Entries[n]
              /\ n \in DOMAIN Entries <=> n \in DOMAIN last.pre.Entries
              /\ n \in DOMAIN Entries => Entries[n] = last.pre.Entries[n]

\* C9: after Restore on an archive that held .backup, .backup/.magisk and
\* .backup/.rmlist no key is .backup or lies below it.
C9_RestoreDropsBackup ==
    (/\ last.op = "Restore"
     /\ {BackupDir, MagiskName, RmListName} \subseteq KeySet(last.pre.Keys))
    => \A k \in KeySet(Keys) : ~AtOrBelow(k, BackupDir)

\* What Patch is to leave as the data of an fstab entry.
PatchedData(data, keep_force_encrypt) ==
    IF keep_force_encrypt THEN PatchVerity(data).data
    ELSE PatchEncryption(PatchVerity(data).data).data

\* C10: after Patch with KEEPVERITY other than "true" every regular file
\* whose name starts with fstab holds PatchVerity of its former data (and
\* PatchEncryption of that unless KEEPFORCEENCRYPT is "true"); the data of
\* every other entry is as before.
C10_PatchAppliesFstab ==
    (last.op = "Patch" /\ ~CheckEnv(last.args.strs[1]) /\ last.res = "nil") =>
        \A k \in DOMAIN last.pre.Entries \cap DOMAIN Entries :
            IF /\ FileType(last.pre.Entries[k].Mode) = S_IFREG
               /\ HasPrefix(k, FstabPrefix)
            THEN Entries[k].Data =
                    PatchedData(last.pre.Entries[k].Data,
                                CheckEnv(last.args.strs[2]))
            ELSE Entries[k].Data = last.pre.Entries[k].Data

\* C12: Mv whose source is not in the archive fails and changes nothing;
\* Mv whose source is there leaves the destination holding the entry the
\* source held, and the source gone.
C12_MvRequiresSource ==
    last.op = "Mv" =>
        LET f == norm_path(last.args.strs[1])
            t == norm_path(last.args.strs[2])
        IN IF f \notin DOMAIN last.pre.Entries
           THEN /\ last.res # "nil"
                /\ Keys = last.pre.Keys
                /\ Entries = last.pre.Entries
           ELSE /\ t \in DOMAIN Entries
                /\ Entries[t] = last.pre.Entries[f]
                /\ f # t => f \notin DOMAIN Entries \cup KeySet(Keys)

\* How often x occurs in the sequence s.
Count(s, x) == Cardinality({i \in 1..Len(s) : s[i] = x})

\* C13: after Add of a regular file under a path, Dump and a fresh load,
\* the normalized path occurs once among the keys, and its entry has the
\* mode or-ed with S_IFREG and the bytes of the file.
C13_AddDumpReload ==
    (/\ Len(hist) >= 3
     /\ hist[Len(hist)].op = "Reload"
     /\ hist[Len(hist) - 1].op = "Dump"
     /\ hist[Len(hist) - 2].op = "Add"
     /\ hist[Len(hist) - 2].args.host.kind = "regular"
     /\ ~HasSuffix(hist[Len(hist) - 2].args.strs[1], Slash))
    => LET a == hist[Len(hist) - 2].args
           p == norm_path(a.strs[1])
       IN /\ Count(Keys, p) = 1
          /\ p \in DOMAIN Entries
          /\ Entries[p].Mode = ModeOr(a.nums[1], S_IFREG)
          /\ Entries[p].Data = a.host.content

----------------------------------------------------------------------------
\* The ramdisk status word.

MAGISK_PATCHED == 1
UNSUPPORTED_CPIO == 2

UnsupportedFiles ==
    << Str(<<"s", "b", "i", "n", "/", "l", "a", "u", "n", "c", "h", "_", "d", "a", "e", "m", "o", "n", "s", "u", ".", "s", "h">>),
       Str(<<"s", "b", "i", "n", "/", "s", "u">>),
       Str(<<"i", "n", "i", "t", ".", "x", "p", "o", "s", "e", "d", ".", "r", "c">>),
       Str(<<"b", "o", "o", "t", "/", "s", "b", "i", "n", "/", "l", "a", "u", "n", "c", "h", "_", "d", "a", "e", "m", "o", "n", "s", "u", ".", "s", "h">>) >>

MagiskFiles ==
    << Str(<<".", "b", "a", "c", "k", "u", "p", "/", ".", "m", "a", "g", "i", "s", "k">>),
       Str(<<"i", "n", "i", "t", ".", "m", "a", "g", "i", "s", "k", ".", "r", "c">>),
       Str(<<"o", "v", "e", "r", "l", "a", "y", "/", "i", "n", "i", "t", ".", "m", "a", "g", "i", "s", "k", ".", "r", "c">>) >>

\* Cpio.Test: both lists are looked up in c.Keys, the unsupported one first.
Test(c) ==
    IF \E i \in 1..Len(UnsupportedFiles) : Contains(c.Keys, UnsupportedFiles[i])
    THEN UNSUPPORTED_CPIO
    ELSE IF \E i \in 1..Len(MagiskFiles) : Contains(c.Keys, MagiskFiles[i])
         THEN MAGISK_PATCHED
         ELSE 0

(***************************************************************************)
(* The cpio command loop                                                   *)
(***************************************************************************)

ByteSpace == Ord(" ")
ByteDigit7 == Ord("7")
BytePlus == Ord("+")
ByteMinus == Ord("-")
MaxInt32 == 2147483647
TwoTo16 == 65536

\* The value of the octal digits of s after acc, -1 when a byte is not an
\* octal digit.
RECURSIVE OctDigits(_, _)
OctDigits(s, acc) ==
    IF s = <<>> THEN acc
    ELSE IF s[1] < ByteDigit0 \/ s[1] > ByteDigit7 THEN -1
    ELSE OctDigits(Tail(s), acc * 8 + (s[1] - ByteDigit0))

\* func parseMode(mode string) uint32: strconv.ParseInt(mode, 8, 32) and
\* the conversion to uint32, of which the model keeps the low 16 bits (the
\* width of ModeOr); ok is FALSE where ParseInt returns an error
\* (log.Fatalln).
parseMode(mode) ==
    LET signed == mode # <<>> /\ mode[1] \in {BytePlus, ByteMinus}
        digits == IF signed THEN Tail(mode) ELSE mode
        n == IF digits = <<>> THEN -1 ELSE OctDigits(digits, 0)
        neg == signed /\ mode[1] = ByteMinus
    IN IF n = -1 \/ (~neg /\ n > MaxInt32) \/ (neg /\ n - 1 > MaxInt32)
       THEN [ok |-> FALSE, val |-> 0]
       ELSE [ok |-> TRUE,
             val |-> IF neg THEN (TwoTo16 - (n % TwoTo16)) % TwoTo16
                     ELSE n % TwoTo16]

\* The files of the host the commands name: f is a regular file, o a
\* stock ramdisk image; no other name exists.
CliHost(name) ==
    IF name = Str(<<"f">>) THEN HostFile("regular", Str(<<"z">>), 0, 0)
    ELSE IF name = Str(<<"o">>) THEN HostFile("regular", Files[1], 0, 0)
    ELSE NoHost

\* What one command of the loop does: the archive after it, whether the
\* loop goes on ("next") or the process ends ("exit" for os.Exit, "fatal"
\* for log.Fatalln, "panic" for a run-time panic), and the exit status.
Step(c, out, code) == [c |-> c, out |-> out, code |-> code]

ExitUsage == 125
ExitFatal == 1
ExitPanic == 2

\* The process goes on with the next command, archive c in hand.
GoOn(c) == Step(c, "next", -1)

\* errExit: the usage text and os.Exit(125)
errExit(c) == Step(c, "exit", ExitUsage)

\* log.Fatalln
Fatal(c) == Step(c, "fatal", ExitFatal)

\* A run-time panic
Panic(c) == Step(c, "panic", ExitPanic)

\* case "patch": the environment sets neither KEEPVERITY nor
\* KEEPFORCEENCRYPT
CmdPatch(c) ==
    LET r == Patch(c, CheckEnv(<<>>), CheckEnv(<<>>))
    IN IF r.res = "panic" THEN Panic(r.c) ELSE GoOn(r.c)

\* case "exists"
CmdExists(c, cmd) ==
    IF Len(cmd) > 1
    THEN Step(c, "exit", IF Exists(c, cmd[2]) THEN 0 ELSE 1)
    ELSE errExit(c)

\* case "backup": Backup loads the origin file into an archive of its own
CmdBackup(c, cmd) ==
    IF Len(cmd) > 1
    THEN LET skip_compress == Len(cmd) > 2 /\ cmd[3] = Str(<<"-", "n">>)
             o == LoadFromData(<<>>, NoEntries, CliHost(cmd[2]).content)
         IN IF CliHost(cmd[2]).kind # "regular" \/ o.err = "panic"
            THEN Panic(c)
            ELSE GoOn(Backup(c, Cpio(o.Keys, o.Entries), skip_compress))
    ELSE errExit(c)

\* case "rm": with -r the path is cmd[2] of the code, which panics when
\* the command ends after -r
CmdRm(c, cmd) ==
    IF Len(cmd) > 1
    THEN IF cmd[2] = Str(<<"-", "r">>)
         THEN IF Len(cmd) > 2 THEN GoOn(Rm(c, cmd[3], TRUE)) ELSE Panic(c)
         ELSE GoOn(Rm(c, cmd[2], FALSE))
    ELSE GoOn(c)

\* case "mv"
CmdMv(c, cmd) ==
    IF Len(cmd) > 2 THEN GoOn(Mv(c, cmd[2], cmd[3])) ELSE errExit(c)

\* case "ln"
CmdLn(c, cmd) ==
    IF Len(cmd) > 2 THEN GoOn(Ln(c, cmd[2], cmd[3])) ELSE errExit(c)

\* case "mkdir"
CmdMkdir(c, cmd) ==
    IF Len(cmd) > 2
    THEN IF parseMode(cmd[2]).ok
         THEN GoOn(Mkdir(c, parseMode(cmd[2]).val, cmd[3]))
         ELSE Fatal(c)
    ELSE errExit(c)

\* case "add"
CmdAdd(c, cmd) ==
    IF Len(cmd) > 3
    THEN IF parseMode(cmd[2]).ok
         THEN LET r == Add(c, parseMode(cmd[2]).val, cmd[3], CliHost(cmd[4]))
              IN IF r.res = "nil" THEN GoOn(r.c) ELSE Fatal(c)
         ELSE Fatal(c)
    ELSE errExit(c)

\* case "extract": with an output name the entry must be among the keys
\* (log.Fatalln otherwise); hostOK says whether the file-system calls
\* succeed.
CmdExtract(c, cmd, hostOK) ==
    IF Len(cmd) > 1
    THEN IF Len(cmd) > 2 /\ ~Contains(c.Keys, norm_path(cmd[2])) THEN Fatal(c)
         ELSE IF hostOK THEN GoOn(c) ELSE Fatal(c)
    ELSE GoOn(c)

\* The switch on cmd[0].
Dispatch(c, cmd, hostOK) ==
    CASE cmd[1] = Str(<<"t", "e", "s", "t">>) -> Step(c, "exit", Test(c))
      [] cmd[1] = Str(<<"r", "e", "s", "t", "o", "r", "e">>) -> GoOn(Restore(c))
      [] cmd[1] = Str(<<"p", "a", "t", "c", "h">>) -> CmdPatch(c)
      [] cmd[1] = Str(<<"e", "x", "i", "s", "t", "s">>) -> CmdExists(c, cmd)
      [] cmd[1] = Str(<<"b", "a", "c", "k", "u", "p">>) -> CmdBackup(c, cmd)
      [] cmd[1] = Str(<<"r", "m">>) -> CmdRm(c, cmd)
      [] cmd[1] = Str(<<"m", "v">>) -> CmdMv(c, cmd)
      [] cmd[1] = Str(<<"l", "n">>) -> CmdLn(c, cmd)
      [] cmd[1] = Str(<<"m", "k", "d", "i", "r">>) -> CmdMkdir(c, cmd)
      [] cmd[1] = Str(<<"a", "d", "d">>) -> CmdAdd(c, cmd)
      [] cmd[1] = Str(<<"e", "x", "t", "r", "a", "c", "t">>) -> CmdExtract(c, cmd, hostOK)
      [] cmd[1] = Str(<<"l", "s">>) -> Step(c, "exit", 0)
      [] OTHER -> GoOn(c)

\* The body of the loop of CpioCommands for one command.
RunCommand(c, command, hostOK) ==
    IF HasPrefix(command, Str(<<"#">>)) THEN GoOn(c)
    ELSE Dispatch(c, Split(command, ByteSpace), hostOK)

\* A ramdisk another root tool patched: its rc file and su binary, and no
\* backup directory.
RootedFile ==
    NewcFile(<< <<Str(<<"i", "n", "i", "t", ".", "m", "a", "g", "i", "s", "k", ".", "r", "c">>), RegEntry(Str(<<"m">>))>>,
                <<Str(<<"s", "b", "i", "n", "/", "s", "u">>), RegEntry(Str(<<"s">>))>> >>)

CliFiles == <<StockFile, PatchedFile, RootedFile>>

\* The commands a run is made of.
CliCommands ==
    { Str(<<"t", "e", "s", "t">>), Str(<<"l", "s">>), Str(<<"l", "s", " ", "-", "r", " ", "a">>), Str(<<"e", "x", "i", "s", "t", "s", " ", "a", "/", "b">>), Str(<<"e", "x", "i", "s", "t", "s", " ", "n", "x">>),
      Str(<<"r", "e", "s", "t", "o", "r", "e">>), Str(<<"p", "a", "t", "c", "h">>), Str(<<"b", "a", "c", "k", "u", "p", " ", "o", " ", "-", "n">>), Str(<<"r", "m", " ", "a">>), Str(<<"r", "m", " ", "-", "r", " ", "a">>),
      Str(<<"r", "m", " ", "-", "r">>), Str(<<"r", "m">>), Str(<<"m", "v", " ", "a", " ", "b">>), Str(<<"l", "n", " ", "a", " ", "l">>), Str(<<"m", "k", "d", "i", "r", " ", "7", "5", "5", " ", "d">>),
      Str(<<"m", "k", "d", "i", "r", " ", "9", " ", "d">>), Str(<<"m", "k", "d", "i", "r", " ", "d">>), Str(<<"a", "d", "d", " ", "6", "4", "4", " ", "e", " ", "f">>), Str(<<"a", "d", "d", " ", "6", "4", "4", " ", "e", " ", "n", "x">>),
      Str(<<"e", "x", "t", "r", "a", "c", "t", " ", "a", "/", "b">>), Str(<<"e", "x", "t", "r", "a", "c", "t", " ", "n", "x", " ", "x">>), Str(<<"#", "x">>), Str(<<"n", "o", "p">>) }

\* The most commands one invocation carries.
MaxCmds == 2

\* The command lists of at most n commands.
RECURSIVE CmdListsOf(_)
CmdListsOf(n) ==
    IF n = 0 THEN {<<>>}
    ELSE LET shorter == CmdListsOf(n - 1)
         IN shorter \cup {Append(l, c) : l \in {x \in shorter : Len(x) = n - 1},
                                         c \in CliCommands}

CmdLists == CmdListsOf(MaxCmds)

\* cpio FILE COMMANDS...: the file exists and the archive is fresh.
CliInit ==
    /\ Keys = <<>>
    /\ Entries = NoEntries
    /\ \E i \in 1..Len(CliFiles) : file = CliFiles[i]
    /\ pc = "new"
    /\ nops = 0
    /\ last = Op("NewCpio", NoArgs, NewCpio, "nil", NoOp)
    /\ hist = <<>>
    /\ cmds \in CmdLists
    /\ ci = 0
    /\ written = 0
    /\ exit = -1

\* cpio.LoadFromFile(cli.File): the error of LoadFromData is dropped, a
\* panic ends the process.
CliLoad ==
    /\ pc = "new"
    /\ LET r == LoadFromData(<<>>, NoEntries, file)
       IN /\ Keys' = r.Keys
          /\ Entries' = r.Entries
          /\ pc' = IF r.err = "panic" THEN "panic" ELSE "loop"
          /\ exit' = IF r.err = "panic" THEN ExitPanic ELSE exit
          /\ last' = Op("LoadFromFile", NoArgs, Now, r.err, Prev)
          /\ hist' = Append(hist, Done("LoadFromFile", NoArgs, r.err))
    /\ UNCHANGED <<file, nops, cmds, ci, written, normVars, funVars, compVars>>

\* One turn of the loop: the next command runs.
CliStep ==
    /\ pc = "loop"
    /\ ci < Len(cmds)
    /\ \E hostOK \in BOOLEAN :
         \E r \in {RunCommand(Now, cmds[ci + 1], hostOK)} :
            /\ Keys' = r.c.Keys
            /\ Entries' = r.c.Entries
            /\ ci' = ci + 1
            /\ pc' = IF r.out = "next" THEN "loop"
                     ELSE IF r.out = "panic" THEN "panic" ELSE "exit"
            /\ exit' = r.code
            /\ last' = Op("command", Args(<<cmds[ci + 1]>>, <<>>, <<>>, NoHost),
                          Now, r.out, Prev)
            /\ hist' = Append(hist, Done("command",
                                         Args(<<cmds[ci + 1]>>, <<>>, <<>>, NoHost),
                                         r.out))
    /\ UNCHANGED <<file, nops, cmds, written, normVars, funVars, compVars>>

\* After the loop: cpio.Dump(cli.File), and main returns.
CliDump ==
    /\ pc = "loop"
    /\ ci = Len(cmds)
    /\ file' = Dump(Keys, Entries)
    /\ written' = written + 1
    /\ pc' = "done"
    /\ exit' = 0
    /\ last' = Op("Dump", NoArgs, Now, "nil", Prev)
    /\ hist' = Append(hist, Done("Dump", NoArgs, "nil"))
    /\ UNCHANGED <<Keys, Entries, nops, cmds, ci, normVars, funVars, compVars>>

InitCli == CliInit /\ NormIdle /\ FunIdle /\ CompIdle

NextCli == CliLoad \/ CliStep \/ CliDump

SpecCli == InitCli /\ [][NextCli]_vars

\* The names of a list for which the archive holds an entry.
EntryFor(names) == {i \in 1..Len(names) : names[i] \in DOMAIN Entries}

\* C11: in every archive state Test returns 2 iff an entry exists for one
\* of the unsupported names, otherwise 1 iff an entry exists for one of the
\* Magisk names, otherwise 0.
C11_TestFlagWord ==
    Test(Now) = IF EntryFor(UnsupportedFiles) # {} THEN UNSUPPORTED_CPIO
                ELSE IF EntryFor(MagiskFiles) # {} THEN MAGISK_PATCHED
                ELSE 0

\* The commands that have run, in the order they ran.
Ran == SelectSeq(hist, LAMBDA h : h.op = "command")

\* The verb of a command.
Verb(command) == Split(command, ByteSpace)[1]

\* The commands that end the process where they stand: ls, test, and
\* exists with a name.
Ending(command) ==
    \/ Verb(command) \in {Str(<<"l", "s">>), Str(<<"t", "e", "s", "t">>)}
    \/ Verb(command) = Str(<<"e", "x", "i", "s", "t", "s">>) /\ Len(Split(command, ByteSpace)) > 1

\* The process has ended.
Terminated == pc \in {"exit", "panic", "done"}

\* C14: the commands run in argument order on one archive; ls, test and
\* exists end the process where they are reached (ls with 0, test with the
\* flag word, exists with 0 if the name is there, else 1), no command runs
\* after them and the archive is not written; and when the process has
\* ended on a list holding none of them, the archive has been serialized
\* exactly once to the input path, after the last command.
C14_CommandLoop ==
    /\ Len(Ran) = ci
    /\ \A i \in 1..ci : Ran[i].args.strs[1] = cmds[i]
    /\ \A i \in 1..ci :
          Ending(cmds[i]) =>
             /\ i = ci
             /\ pc = "exit"
             /\ written = 0
             /\ exit = IF Verb(cmds[i]) = Str(<<"l", "s">>) THEN 0
                       ELSE IF Verb(cmds[i]) = Str(<<"t", "e", "s", "t">>) THEN Test(last.pre)
                       ELSE IF Exists(last.pre, Split(cmds[i], ByteSpace)[2])
                            THEN 0 ELSE 1
    /\ written <= 1
    /\ (Terminated /\ \A i \in 1..Len(cmds) : ~Ending(cmds[i])) =>
          /\ ci = Len(cmds)
          /\ written = 1
          /\ hist[Len(hist)].op = "Dump"
          /\ file = Dump(Keys, Entries)

(***************************************************************************)
(* Format detection and the names of the formats                          *)
(***************************************************************************)

UNKNOWN == 0
CHROMEOS == 1
AOSP == 2
AOSP_VENDOR == 3
DHTB == 4
BLOB == 5
GZIP == 6
ZOPFLI == 7
XZ == 8
LZMA == 9
BZIP2 == 10
LZ4 == 11
LZ4_LEGACY == 12
LZ4_LG == 13
LZOP == 14
MTK == 15
DTB == 16
ZIMAGE == 17

BOOT_MAGIC == Str(<<"A", "N", "D", "R", "O", "I", "D", "!">>)
VENDOR_BOOT_MAGIC == Str(<<"V", "N", "D", "R", "B", "O", "O", "T">>)
CHROMEOS_MAGIC == Str(<<"C", "H", "R", "O", "M", "E", "O", "S">>)
GZIP1_MAGIC == <<31, 139>>
GZIP2_MAGIC == <<31, 158>>
LZOP_MAGIC == <<137>> \o Str(<<"L", "Z", "O">>)
XZ_MAGIC == <<253>> \o Str(<<"7", "z", "X", "Z">>)
BZIP_MAGIC == Str(<<"B", "Z", "h">>)
LZ4_LEG_MAGIC == <<2, 33, 76, 24>>
LZ41_MAGIC == <<3, 33, 76, 24>>
LZ42_MAGIC == <<4, 34, 77, 24>>
MTK_MAGIC == <<136, 22, 136, 88>>
DTB_MAGIC == <<208, 13, 254, 237>>
DHTB_MAGIC == <<68, 72, 84, 66, 1, 0, 0, 0>>
TEGRABLOB_MAGIC == Str(<<"-", "S", "I", "G", "N", "E", "D", "-", "B", "Y", "-", "S", "I", "G", "N", "B", "L", "O", "B", "-">>)
ZIMAGE_MAGIC == <<24, 40, 111, 1>>
LzmaHead == <<93, 0, 0>>
ZImageOffset == 36

\* A Go byte slice: the bytes within its length, and the bytes of its
\* backing array between its length and its capacity.
Slice(buf, back) == [buf |-> buf, back |-> back]

\* CHECKED_MATCH(p): bytes.Equal([]byte(p), buf[:len(p)]).  The slice
\* expression reaches into the backing array, and panics when len(p) is
\* above the capacity.
CHECKED_MATCH(b, p) ==
    IF Len(p) > Len(b.buf) + Len(b.back) THEN "panic"
    ELSE IF SubSeq(b.buf \o b.back, 1, Len(p)) = p THEN "yes"
    ELSE "no"

\* m1 || m2, the second operand evaluated only if the first is false
OrElse(m1, m2) == IF m1 = "no" THEN m2 ELSE m1

\* The tests of CheckFmt in the order of its else-if chain, each with the
\* tag it returns.
FmtRules(b) ==
    << <<CHECKED_MATCH(b, CHROMEOS_MAGIC), CHROMEOS>>,
       <<CHECKED_MATCH(b, BOOT_MAGIC), AOSP>>,
       <<CHECKED_MATCH(b, VENDOR_BOOT_MAGIC), AOSP_VENDOR>>,
       <<OrElse(CHECKED_MATCH(b, GZIP1_MAGIC), CHECKED_MATCH(b, GZIP2_MAGIC)),
         GZIP>>,
       <<CHECKED_MATCH(b, LZOP_MAGIC), LZOP>>,
       <<CHECKED_MATCH(b, XZ_MAGIC), XZ>>,
       <<IF /\ Len(b.buf) >= 13
            /\ SubSeq(b.buf, 1, 3) = LzmaHead
            /\ b.buf[13] \in {255, 0}
         THEN "yes" ELSE "no", LZMA>>,
       <<CHECKED_MATCH(b, BZIP_MAGIC), BZIP2>>,
       <<OrElse(CHECKED_MATCH(b, LZ41_MAGIC), CHECKED_MATCH(b, LZ42_MAGIC)),
         LZ4>>,
       <<CHECKED_MATCH(b, LZ4_LEG_MAGIC), LZ4_LEGACY>>,
       <<CHECKED_MATCH(b, MTK_MAGIC), MTK>>,
       <<CHECKED_MATCH(b, DTB_MAGIC), DTB>>,
       <<CHECKED_MATCH(b, DHTB_MAGIC), DHTB>>,
       <<CHECKED_MATCH(b, TEGRABLOB_MAGIC), BLOB>>,
       <<IF /\ Len(b.buf) >= ZImageOffset + 4
            /\ SubSeq(b.buf, ZImageOffset + 1, ZImageOffset + Len(ZIMAGE_MAGIC))
                 = ZIMAGE_MAGIC
         THEN "yes" ELSE "no", ZIMAGE>> >>

\* What a call returned: a value, or a panic.
Returned(val) == [panic |-> FALSE, val |-> val]
Panicked == [panic |-> TRUE, val |-> 0]

\* The chain from its i-th test on.
RECURSIVE FirstRule(_, _)
FirstRule(rules, i) ==
    IF i > Len(rules) THEN Returned(UNKNOWN)
    ELSE IF rules[i][1] = "panic" THEN Panicked
    ELSE IF rules[i][1] = "yes" THEN Returned(rules[i][2])
    ELSE FirstRule(rules, i + 1)

\* func CheckFmt(buf []byte) format_t
CheckFmt(b) == FirstRule(FmtRules(b), 1)

\* func Fmt2Name(fmt format_t) string
Fmt2Name(fmt) ==
    CASE fmt = GZIP -> Str(<<"g", "z", "i", "p">>)
      [] fmt = ZOPFLI -> Str(<<"z", "o", "p", "f", "l", "i">>)
      [] fmt = LZOP -> Str(<<"l", "z", "o", "p">>)
      [] fmt = XZ -> Str(<<"x", "z">>)
      [] fmt = LZMA -> Str(<<"l", "z", "m", "a">>)
      [] fmt = BZIP2 -> Str(<<"b", "z", "i", "p", "2">>)
      [] fmt = LZ4 -> Str(<<"l", "z", "4">>)
      [] fmt = LZ4_LEGACY -> Str(<<"l", "z", "4", "_", "l", "e", "g", "a", "c", "y">>)
      [] fmt = LZ4_LG -> Str(<<"l", "z", "4", "_", "l", "g">>)
      [] fmt = DTB -> Str(<<"d", "t", "b">>)
      [] fmt = ZIMAGE -> Str(<<"z", "i", "m", "a", "g", "e">>)
      [] OTHER -> Str(<<"r", "a", "w">>)

\* func Fmt2Ext(fmt format_t) string.  A Go case does not fall through:
\* the empty cases GZIP, LZ4 and LZ4_LEGACY leave the switch, and the
\* function ends in return "".
Fmt2Ext(fmt) ==
    CASE fmt = GZIP -> <<>>
      [] fmt = ZOPFLI -> Str(<<".", "g", "z">>)
      [] fmt = LZOP -> Str(<<".", "l", "z", "o">>)
      [] fmt = XZ -> Str(<<".", "x", "z">>)
      [] fmt = LZMA -> Str(<<".", "l", "z", "m", "a">>)
      [] fmt = BZIP2 -> Str(<<".", "b", "z", "2">>)
      [] fmt = LZ4 -> <<>>
      [] fmt = LZ4_LEGACY -> <<>>
      [] fmt = LZ4_LG -> Str(<<".", "l", "z", "4">>)
      [] OTHER -> <<>>

\* func Name2Fmt(name string) format_t
Name2Fmt(name) ==
    CASE name = Str(<<"g", "z", "i", "p">>) -> GZIP
      [] name = Str(<<"z", "o", "p", "f", "l", "i">>) -> ZOPFLI
      [] name = Str(<<"x", "z">>) -> XZ
      [] name = Str(<<"l", "z", "m", "a">>) -> LZMA
      [] name = Str(<<"b", "z", "i", "p", "2">>) -> BZIP2
      [] name = Str(<<"l", "z", "4">>) -> LZ4
      [] name = Str(<<"l", "z", "4", "_", "l", "e", "g", "a", "c", "y">>) -> LZ4_LEGACY
      [] name = Str(<<"l", "z", "4", "_", "l", "g">>) -> LZ4_LG
      [] OTHER -> UNKNOWN

\* The inputs of the format functions.

Magics ==
    { CHROMEOS_MAGIC, BOOT_MAGIC, VENDOR_BOOT_MAGIC, GZIP1_MAGIC, GZIP2_MAGIC,
      LZOP_MAGIC, XZ_MAGIC, LzmaHead, BZIP_MAGIC, LZ41_MAGIC, LZ42_MAGIC,
      LZ4_LEG_MAGIC, MTK_MAGIC, DTB_MAGIC, DHTB_MAGIC, TEGRABLOB_MAGIC }

\* n bytes of value v
Fill(n, v) == [i \in 1..n |-> v]

\* s cut or filled with the byte v to the length n
Pad(s, n, v) == IF Len(s) >= n THEN s ELSE s \o Fill(n - Len(s), v)

\* The longest buffer, two bytes more than the 0x28-byte window.
MaxBuf == 42

BufLengths == {0, 1, 2, 8, 13, 20, ZImageOffset + 4, MaxBuf}

\* Every magic, whole and cut one byte short, filled to each length with
\* zeros or with 0xff; the S3 buffer; a zImage.
Buffers ==
    {Pad(m, n, v) : m \in Magics \cup {<<>>}, n \in BufLengths, v \in {0, 255}}
    \cup {Pad(SubSeq(m, 1, Len(m) - 1), n, 0) : m \in Magics, n \in {0, MaxBuf}}
    \cup {GZIP1_MAGIC \o <<0, 0, 255, 255, 255, 255>>}
    \cup {Fill(ZImageOffset, 0) \o ZIMAGE_MAGIC \o Fill(n, 0) : n \in {0, 2}}

\* The bytes a caller's array may hold behind the slice: none, or the
\* rest of a page-sized read buffer (cut to MaxBuf) filled with zeros.
Backs(buf) == {<<>>, Fill(MaxBuf - Len(buf), 0)}

\* The format tags, and one value that is none.
Tags == UNKNOWN..(ZIMAGE + 1)

FmtInit ==
    /\ \E buf \in Buffers : \E back \in Backs(buf) : \E t \in Tags :
          fin = [b |-> Slice(buf, back), fmt |-> t]
    /\ fout = [panic |-> FALSE, val |-> 0, ext |-> <<>>]
    /\ fdone = "none"

DoCheckFmt ==
    /\ fdone = "none"
    /\ fout' = [panic |-> CheckFmt(fin.b).panic, val |-> CheckFmt(fin.b).val,
                ext |-> <<>>]
    /\ fdone' = "CheckFmt"
    /\ UNCHANGED <<fin, cpioVars, normVars, cliVars, compVars>>

DoFmt2Ext ==
    /\ fdone = "none"
    /\ fout' = [panic |-> FALSE, val |-> fin.fmt, ext |-> Fmt2Ext(fin.fmt)]
    /\ fdone' = "Fmt2Ext"
    /\ UNCHANGED <<fin, cpioVars, normVars, cliVars, compVars>>

InitFmt == FmtInit /\ CpioIdle /\ NormIdle /\ CliIdle /\ CompIdle

NextFmt == DoCheckFmt \/ DoFmt2Ext

SpecFmt == InitFmt /\ [][NextFmt]_vars

\* The magic is the beginning of the buffer; a buffer shorter than the
\* magic does not begin with it.
BeginsWith(buf, magic) ==
    Len(buf) >= Len(magic) /\ SubSeq(buf, 1, Len(magic)) = magic

\* The rules of the detection in their order: the tag and whether the
\* buffer matches.
Detection(buf) ==
    << <<CHROMEOS, BeginsWith(buf, CHROMEOS_MAGIC)>>,
       <<AOSP, BeginsWith(buf, BOOT_MAGIC)>>,
       <<AOSP_VENDOR, BeginsWith(buf, VENDOR_BOOT_MAGIC)>>,
       <<GZIP, BeginsWith(buf, GZIP1_MAGIC) \/ BeginsWith(buf, GZIP2_MAGIC)>>,
       <<LZOP, BeginsWith(buf, LZOP_MAGIC)>>,
       <<XZ, BeginsWith(buf, XZ_MAGIC)>>,
       <<LZMA, /\ Len(buf) >= 13
               /\ BeginsWith(buf, LzmaHead)
               /\ buf[13] \in {0, 255}>>,
       <<BZIP2, BeginsWith(buf, BZIP_MAGIC)>>,
       <<LZ4, BeginsWith(buf, LZ41_MAGIC) \/ BeginsWith(buf, LZ42_MAGIC)>>,
       <<LZ4_LEGACY, BeginsWith(buf, LZ4_LEG_MAGIC)>>,
       <<MTK, BeginsWith(buf, MTK_MAGIC)>>,
       <<DTB, BeginsWith(buf, DTB_MAGIC)>>,
       <<DHTB, BeginsWith(buf, DHTB_MAGIC)>>,
       <<BLOB, BeginsWith(buf, TEGRABLOB_MAGIC)>>,
       <<ZIMAGE, /\ Len(buf) >= ZImageOffset + 4
                 /\ SubSeq(buf, ZImageOffset + 1, ZImageOffset + 4)
                      = ZIMAGE_MAGIC>> >>

\* The tag of the first rule that matches, UNKNOWN when none does.
Detected(buf) ==
    LET d == Detection(buf)
        hits == {i \in 1..Len(d) : d[i][2]}
    IN IF hits = {} THEN UNKNOWN
       ELSE d[CHOOSE i \in hits : \A j \in hits : i <= j][1]

\* C15: for every buffer, those shorter than a magic included, CheckFmt
\* returns the tag of the first rule, in the fixed order, whose magic
\* matches the buffer, and UNKNOWN when none matches.
C15_CheckFmtFirstMatch ==
    fdone = "CheckFmt" => ~fout.panic /\ fout.val = Detected(fin.b.buf)

\* C16: Fmt2Ext returns .gz for GZIP and ZOPFLI, .lzo for LZOP, .xz for XZ,
\* .lzma for LZMA, .bz2 for BZIP2, .lz4 for LZ4, LZ4_LEGACY and LZ4_LG, and
\* the empty string for every other tag.
C16_Fmt2ExtTable ==
    fdone = "Fmt2Ext" =>
        fout.ext = CASE fin.fmt \in {GZIP, ZOPFLI} -> Str(<<".", "g", "z">>)
                     [] fin.fmt = LZOP -> Str(<<".", "l", "z", "o">>)
                     [] fin.fmt = XZ -> Str(<<".", "x", "z">>)
                     [] fin.fmt = LZMA -> Str(<<".", "l", "z", "m", "a">>)
                     [] fin.fmt = BZIP2 -> Str(<<".", "b", "z", "2">>)
                     [] fin.fmt \in {LZ4, LZ4_LEGACY, LZ4_LG} -> Str(<<".", "l", "z", "4">>)
                     [] OTHER -> <<>>

(***************************************************************************)
(* compress[=format] <infile> [outfile]                                    *)
(***************************************************************************)

\* The files of the host: fs[path] is the contents of the file at path.
NoFiles == [p \in {} |-> <<>>]

\* os.Create(path): the file exists and is empty afterwards.
Create(files, path) ==
    [p \in DOMAIN files \cup {path} |-> IF p = path THEN <<>> ELSE files[p]]

\* Write on a descriptor of the file at path, at the end of the file.
WriteTo(files, path, bytes) ==
    [p \in DOMAIN files |-> IF p = path THEN files[p] \o bytes ELSE files[p]]

\* os.Remove(path)
Remove(files, path) == [p \in DOMAIN files \ {path} |-> files[p]]

\* The bytes with which the stream of an encoder begins.
StreamMagic(t) ==
    CASE t = GZIP -> GZIP1_MAGIC
      [] t = XZ -> XZ_MAGIC
      [] t = LZMA -> LzmaHead
      [] t = BZIP2 -> BZIP_MAGIC
      [] t = LZ4 -> LZ42_MAGIC
      [] OTHER -> <<>>

\* The mark with which an encoder ends its stream on Close.
StreamEnd == <<0>>

\* The bytes one Read of the loop takes; the buffer of the code has 4096.
BufLen == 2

\* The longest input file.
MaxData == 3

\* The locals of Compress and where it stands.
CompLocals(step, method, infile, outfile, t, out, rm_in, pos, fed, began, eof, closed, orig) ==
    [step |-> step, method |-> method, infile |-> infile,
     outfile |-> outfile, t |-> t, out |-> out, rm_in |-> rm_in,
     pos |-> pos, fed |-> fed, began |-> began, eof |-> eof,
     closed |-> closed, orig |-> orig]

InName == Str(<<"k">>)
OutName == Str(<<"o">>)

\* The method names a run gives: those with an encoder, zopfli (which
\* NewEncoder refuses) and a name that is none.
Methods ==
    { Str(<<"g", "z", "i", "p">>), Str(<<"x", "z">>), Str(<<"l", "z", "m", "a">>), Str(<<"b", "z", "i", "p", "2">>), Str(<<"l", "z", "4">>), Str(<<"z", "o", "p", "f", "l", "i">>), Str(<<"n", "o", "p", "e">>) }

Contents == {SubSeq(Str(<<"x", "y", "z">>), 1, n) : n \in 0..MaxData}

\* Compress(method, infile, outfile) is entered; infile is a regular
\* file, and outfile is "" when the command line has none.
CompInit ==
    /\ \E data \in Contents : \E method \in Methods :
       \E outfile \in {<<>>, OutName} :
          /\ fs = [p \in {InName} |-> data]
          /\ cst = CompLocals("start", method, InName, outfile, UNKNOWN,
                              <<>>, FALSE, 0, <<>>, FALSE, FALSE, FALSE, data)

\* t := Name2Fmt(method), fatal when UNKNOWN; os.Open(infile).
CompOpen ==
    /\ cst.step = "start"
    /\ cst' = [cst EXCEPT !.t = Name2Fmt(cst.method),
                          !.step = IF Name2Fmt(cst.method) = UNKNOWN
                                      \/ cst.infile \notin DOMAIN fs
                                   THEN "fatal" ELSE "opened"]
    /\ UNCHANGED <<fs, cpioVars, normVars, cliVars, funVars>>

\* The output is created: infile + Fmt2Ext(t) when outfile is "", and
\* then rm_in is set; NewEncoder panics for ZOPFLI.
CompCreate ==
    /\ cst.step = "opened"
    /\ LET tmp == IF cst.outfile = <<>> THEN cst.infile \o Fmt2Ext(cst.t)
                  ELSE cst.outfile
       IN /\ fs' = Create(fs, tmp)
          /\ cst' = [cst EXCEPT !.out = tmp,
                                !.rm_in = (cst.outfile = <<>>),
                                !.step = IF cst.t = ZOPFLI THEN "panic"
                                         ELSE "loop"]
    /\ UNCHANGED <<cpioVars, normVars, cliVars, funVars>>

\* One turn of the loop: in_fd.Read(buf) takes the next bytes of the file
\* as it is now, encoder.Write hands them on (the stream begins with the
\* first Write), and the loop ends at io.EOF.
CompRead ==
    /\ cst.step = "loop"
    /\ LET data == fs[cst.infile]
           l == IF Len(data) - cst.pos > BufLen THEN BufLen
                ELSE IF Len(data) > cst.pos THEN Len(data) - cst.pos ELSE 0
           chunk == SubSeq(data, cst.pos + 1, cst.pos + l)
           head == IF cst.began THEN <<>> ELSE StreamMagic(cst.t)
       IN /\ fs' = WriteTo(fs, cst.out, head \o chunk)
          /\ cst' = [cst EXCEPT !.pos = cst.pos + l,
                                !.fed = cst.fed \o chunk,
                                !.began = TRUE,
                                !.eof = (l = 0),
                                !.step = IF l = 0 THEN "close" ELSE "loop"]
    /\ UNCHANGED <<cpioVars, normVars, cliVars, funVars>>

\* encoder.Close() ends the stream; both files are closed.
CompClose ==
    /\ cst.step = "close"
    /\ fs' = WriteTo(fs, cst.out, StreamEnd)
    /\ cst' = [cst EXCEPT !.closed = TRUE, !.step = "remove"]
    /\ UNCHANGED <<cpioVars, normVars, cliVars, funVars>>

\* if rm_in { os.Remove(infile) }, and Compress returns.
CompRemove ==
    /\ cst.step = "remove"
    /\ fs' = IF cst.rm_in THEN Remove(fs, cst.infile) ELSE fs
    /\ cst' = [cst EXCEPT !.step = "done"]
    /\ UNCHANGED <<cpioVars, normVars, cliVars, funVars>>

InitComp == CompInit /\ CpioIdle /\ NormIdle /\ CliIdle /\ FunIdle

NextComp == CompOpen \/ CompCreate \/ CompRead \/ CompClose \/ CompRemove

SpecComp == InitComp /\ [][NextComp]_vars

\* The extension the format maps to.
MappedExt(t) ==
    CASE t \in {GZIP, ZOPFLI} -> Str(<<".", "g", "z">>)
      [] t = LZOP -> Str(<<".", "l", "z", "o">>)
      [] t = XZ -> Str(<<".", "x", "z">>)
      [] t = LZMA -> Str(<<".", "l", "z", "m", "a">>)
      [] t = BZIP2 -> Str(<<".", "b", "z", "2">>)
      [] t \in {LZ4, LZ4_LEGACY, LZ4_LG} -> Str(<<".", "l", "z", "4">>)
      [] OTHER -> <<>>

\* The methods that have an encoder.
Supported == {Str(<<"g", "z", "i", "p">>), Str(<<"x", "z">>), Str(<<"l", "z", "m", "a">>), Str(<<"b", "z", "i", "p", "2">>), Str(<<"l", "z", "4">>)}

\* C17: Compress with no output argument and a supported method writes to
\* infile + the mapped extension, a path other than infile; infile is not
\* truncated or removed before all of it has been read and the stream has
\* been ended; on return the output exists and infile is gone.
C17_CompressReplacesInput ==
    (cst.outfile = <<>> /\ cst.method \in Supported) =>
        /\ cst.step \in {"loop", "close", "remove", "done"} =>
              /\ cst.out = cst.infile \o MappedExt(cst.t)
              /\ cst.out # cst.infile
        /\ (cst.infile \notin DOMAIN fs \/ fs[cst.infile] # cst.orig) =>
              /\ cst.fed = cst.orig
              /\ cst.eof
              /\ cst.closed
        /\ cst.step = "done" =>
              /\ cst.out \in DOMAIN fs
              /\ cst.infile \notin DOMAIN fs

(***************************************************************************)
(* The fstab patcher on texts of a few lines                               *)
(***************************************************************************)

\* The lines the texts are made of: an empty line, a comment, lines of 2,
\* 3 and 4 fields, a line whose fifth field holds flags of both sets, and
\* a line of six fields with a run of spaces.
FstabLines ==
    { <<>>, Str(<<"#", "c", " ", "d">>), Str(<<"a", " ", " ", "b">>), Str(<<"a", " ", "b", " ", "c">>), Str(<<"a", " ", "b", " ", "c", " ", "d">>),
      Str(<<"a", " ", "b", " ", "c", " ", "d", " ", "w", ",", "v", "e", "r", "i", "f", "y", ",", "f", "o", "r", "c", "e", "e", "n", "c", "r", "y", "p", "t", "=", "f">>), Str(<<"a", " ", "b", " ", "c", " ", " ", "d", " ", "a", "v", "b", ",", "w", ",", "x", " ", "e">>) }

\* The most lines of a text.
MaxLines == 2

\* The sequences of at most n lines.
RECURSIVE LineLists(_)
LineLists(n) ==
    IF n = 0 THEN {<<>>}
    ELSE LET shorter == LineLists(n - 1)
         IN shorter \cup {Append(l, x) : l \in {y \in shorter : Len(y) = n - 1},
                                         x \in FstabLines}

\* The lines joined by newlines, with or without a final newline.
FstabTexts ==
    {Join(l, <<10>>) : l \in LineLists(MaxLines)}
    \cup {Join(l, <<10>>) \o <<10>> : l \in LineLists(MaxLines) \ {<<>>}}

FstabInit ==
    /\ \E text \in FstabTexts : fin = [text |-> text]
    /\ fout = [panic |-> FALSE, data |-> <<>>]
    /\ fdone = "none"

DoPatchVerity ==
    /\ fdone = "none"
    /\ fout' = PatchVerity(fin.text)
    /\ fdone' = "PatchVerity"
    /\ UNCHANGED <<fin, cpioVars, normVars, cliVars, compVars>>

DoPatchEncryption ==
    /\ fdone = "none"
    /\ fout' = PatchEncryption(fin.text)
    /\ fdone' = "PatchEncryption"
    /\ UNCHANGED <<fin, cpioVars, normVars, cliVars, compVars>>

InitFstab == FstabInit /\ CpioIdle /\ NormIdle /\ CliIdle /\ CompIdle

NextFstab == DoPatchVerity \/ DoPatchEncryption

SpecFstab == InitFstab /\ [][NextFstab]_vars

\* A line the patcher is to leave alone: empty, a comment, or one of
\* fewer than 5 fields.
Untouched(line) ==
    line = <<>> \/ line[1] = ByteHash \/ Len(Fields(line)) < 5

EndsWithNewline(text) == text # <<>> /\ text[Len(text)] = 10

\* C18: PatchVerity and PatchEncryption return normally; every line that
\* is empty, begins with '#' or has fewer than 5 fields stands byte for
\* byte at the same position in the output; the number of lines and the
\* final newline, or its absence, are kept.
C18_UntouchedLines ==
    fdone \in {"PatchVerity", "PatchEncryption"} =>
        /\ ~fout.panic
        /\ LET old == Split(fin.text, 10)
               new == Split(fout.data, 10)
           IN /\ Len(new) = Len(old)
              /\ \A i \in 1..Len(old) : Untouched(old[i]) => new[i] = old[i]
              /\ EndsWithNewline(fout.data) <=> EndsWithNewline(fin.text)

\* The patterns of the call that was made.
PatternsOf(call) ==
    IF call = "PatchVerity" THEN verityPatterns ELSE encryptionPatterns

\* C19: in a text with one line that holds a flag list (its fifth field),
\* the call leaves in that list exactly the flags that start with no
\* pattern of its set, in their order, and every other line of the text,
\* comments included, comes out byte for byte.
C19_FlagRemoval ==
    (/\ fdone \in {"PatchVerity", "PatchEncryption"}
     /\ Cardinality({i \in 1..Len(Split(fin.text, 10)) :
                        ~Untouched(Split(fin.text, 10)[i])}) = 1)
    => /\ ~fout.panic
       /\ LET old == Split(fin.text, 10)
              new == Split(fout.data, 10)
          IN /\ Len(new) = Len(old)
             /\ \A i \in 1..Len(old) :
                   IF Untouched(old[i]) THEN new[i] = old[i]
                   ELSE /\ Len(Fields(new[i])) >= 4
                        /\ SubSeq(Fields(new[i]), 1, 4)
                             = SubSeq(Fields(old[i]), 1, 4)
                        /\ Split(new[i], ByteSpace)[5]
                             = Join(KeepFlags(Split(Fields(old[i])[5], ByteComma),
                                              PatternsOf(fdone)), Comma)

(***************************************************************************)
(* hexpatch <file> <hexpattern1> <hexpattern2>                             *)
(***************************************************************************)

\* hex.DecodeString(s): an odd length or a byte that is no hex digit is an
\* error; otherwise each pair of digits is one byte.
RECURSIVE DecodePairs(_)
DecodePairs(s) ==
    IF s = <<>> THEN <<>>
    ELSE <<HexVal(s[1]) * 16 + HexVal(s[2])>> \o DecodePairs(SubSeq(s, 3, Len(s)))

DecodeString(s) ==
    IF Len(s) % 2 = 1 \/ \E i \in 1..Len(s) : HexVal(s[i]) < 0
    THEN [ok |-> FALSE, bytes |-> <<>>]
    ELSE [ok |-> TRUE, bytes |-> DecodePairs(s)]

\* What HexPatch did: how it ended ("ok", "fatal" for log.Fatalln, "panic"
\* for an index out of range), the bytes of the file afterwards and the
\* value returned.
Patched(out, m, patched) == [out |-> out, m |-> m, patched |-> patched]

\* The inner loop from the j-th byte of from_b on: whether all of from_b
\* stands at offset i, differs there, or m[i+j] is read past the end of m.
\* i counts from 0 as in the code.
RECURSIVE MatchAt(_, _, _, _)
MatchAt(m, i, from_b, j) ==
    IF j > Len(from_b) THEN "match"
    ELSE IF i + j > Len(m) THEN "panic"
    ELSE IF from_b[j] # m[i + j] THEN "differ"
    ELSE MatchAt(m, i, from_b, j + 1)

\* copy(m[i:], to_b): as many bytes as both hold
CopyAt(m, i, to_b) ==
    [k \in 1..Len(m) |->
        IF k > i /\ k - i <= Len(to_b) THEN to_b[k - i] ELSE m[k]]

\* The loop over the file from offset i on.
RECURSIVE HexLoop(_, _, _, _, _)
HexLoop(m, i, from_b, to_b, patched) ==
    IF i >= Len(m) THEN Patched("ok", m, patched)
    ELSE IF from_b = <<>> THEN Patched("panic", m, patched)
    ELSE IF from_b[1] # m[i + 1] THEN HexLoop(m, i + 1, from_b, to_b, patched)
    ELSE IF MatchAt(m, i, from_b, 1) = "panic" THEN Patched("panic", m, patched)
    ELSE IF MatchAt(m, i, from_b, 1) = "match"
         THEN HexLoop(CopyAt(m, i, to_b), i + 1, from_b, to_b, TRUE)
    ELSE HexLoop(m, i + 1, from_b, to_b, patched)

\* func HexPatch(file, from, to string) bool, on a file that holds m
HexPatch(m, from, to) ==
    IF ~DecodeString(from).ok \/ ~DecodeString(to).ok
    THEN Patched("fatal", m, FALSE)
    ELSE HexLoop(m, 0, DecodeString(from).bytes, DecodeString(to).bytes, FALSE)

\* The longest file.
MaxFile == 3

\* The files: the bytes "1" and "2" in every order.
RECURSIVE HexFiles(_)
HexFiles(n) ==
    IF n = 0 THEN {<<>>}
    ELSE LET shorter == HexFiles(n - 1)
         IN shorter \cup {Append(f, b) : f \in {g \in shorter : Len(g) = n - 1},
                                         b \in {49, 50}}

\* The patterns: "1", "12", "2", "21" in hex, an odd one, one that is no
\* hex, and the empty one.
HexPatterns ==
    { Str(<<"3", "1">>), Str(<<"3", "1", "3", "2">>), Str(<<"3", "2">>), Str(<<"3", "2", "3", "1">>), Str(<<"3">>), Str(<<"z", "z">>), <<>> }

HexInit ==
    /\ \E m \in HexFiles(MaxFile) \ {<<>>} :
       \E from \in HexPatterns : \E to \in HexPatterns :
          fin = [m |-> m, from |-> from, to |-> to]
    /\ fout = Patched("none", <<>>, FALSE)
    /\ fdone = "none"

DoHexPatch ==
    /\ fdone = "none"
    /\ fout' = HexPatch(fin.m, fin.from, fin.to)
    /\ fdone' = "HexPatch"
    /\ UNCHANGED <<fin, cpioVars, normVars, cliVars, compVars>>

InitHex == HexInit /\ CpioIdle /\ NormIdle /\ CliIdle /\ CompIdle

NextHex == DoHexPatch

SpecHex == InitHex /\ [][NextHex]_vars

\* C20: HexPatch never changes the size of the file; when the decoded
\* from and to differ in length it does not report success and no byte of
\* the file is modified.
C20_HexPatchLengths ==
    fdone = "HexPatch" =>
        /\ Len(fout.m) = Len(fin.m)
        /\ (/\ DecodeString(fin.from).ok
            /\ DecodeString(fin.to).ok
            /\ Len(DecodeString(fin.from).bytes) # Len(DecodeString(fin.to).bytes))
           => ~fout.patched /\ fout.m = fin.m

\* The scan as the patterns describe it, from offset i on: every window of
\* Len(from_b) bytes that lies inside m and equals from_b when the scan
\* comes to it is overwritten with to_b.
RECURSIVE Scan(_, _, _, _, _)
Scan(m, i, from_b, to_b, hit) ==
    IF i >= Len(m) THEN [m |-> m, hit |-> hit]
    ELSE IF i + Len(from_b) <= Len(m) /\ SubSeq(m, i + 1, i + Len(from_b)) = from_b
    THEN Scan([k \in 1..Len(m) |->
                  IF k > i /\ k <= i + Len(to_b) THEN to_b[k - i] ELSE m[k]],
              i + 1, from_b, to_b, TRUE)
    ELSE Scan(m, i + 1, from_b, to_b, hit)

\* C21: for non-empty decoded patterns of equal length HexPatch returns
\* normally, the file holds what the scan in ascending offsets leaves
\* (overlapping matches each processed, no other byte changed), and the
\* value returned is true iff a window was overwritten - also when the
\* file ends with a proper prefix of from.
C21_HexPatchScan ==
    (/\ fdone = "HexPatch"
     /\ DecodeString(fin.from).ok
     /\ DecodeString(fin.to).ok
     /\ DecodeString(fin.from).bytes # <<>>
     /\ Len(DecodeString(fin.from).bytes) = Len(DecodeString(fin.to).bytes))
    => /\ fout.out = "ok"
       /\ fout.m = Scan(fin.m, 0, DecodeString(fin.from).bytes,
                        DecodeString(fin.to).bytes, FALSE).m
       /\ fout.patched = Scan(fin.m, 0, DecodeString(fin.from).bytes,
                              DecodeString(fin.to).bytes, FALSE).hit

(***************************************************************************)
(* extract <payload.bin> [partition] [outfile]                             *)
(***************************************************************************)

\* strings.TrimRight(s, " ")
RECURSIVE TrimRightSpace(_)
TrimRightSpace(s) ==
    IF s # <<>> /\ s[Len(s)] = ByteSpace
    THEN TrimRightSpace(SubSeq(s, 1, Len(s) - 1)) ELSE s

\* An optional field of a manifest message is <<>> when it is not set and
\* <<v>> when it is set to v; its getter gives the zero value of the type
\* for a field that is not set.
Get(field) == IF field = <<>> THEN 0 ELSE field[1]

\* update_engine.Extent
Extent(start_block, num_blocks) ==
    [start_block |-> start_block, num_blocks |-> num_blocks]

\* update_engine.InstallOperation
InstallOperation(type, data_offset, data_length, dst_extents) ==
    [type |-> type, data_offset |-> data_offset,
     data_length |-> data_length, dst_extents |-> dst_extents]

GetDataOffset(operation) == Get(operation.data_offset)

GetDataLength(operation) == Get(operation.data_length)

\* update_engine.PartitionUpdate
PartitionUpdate(partition_name, operations) ==
    [partition_name |-> partition_name, operations |-> operations]

\* No operation has been looked at yet.
NoOperation == InstallOperation("NONE", <<>>, <<>>, <<>>)

INIT_BOOT == Str(<<"i", "n", "i", "t", "_", "b", "o", "o", "t">>)
BOOT == Str(<<"b", "o", "o", "t">>)
PAYLOAD_MAGIC == Str(<<"C", "r", "A", "U">>)

\* The index of the first partition of the manifest with the name, 0 when
\* there is none: the loop that returns at the first match.
FirstNamed(partitions, name) ==
    IF \E i \in 1..Len(partitions) : partitions[i].partition_name = name
    THEN CHOOSE i \in 1..Len(partitions) :
            /\ partitions[i].partition_name = name
            /\ \A j \in 1..(i - 1) : partitions[j].partition_name # name
    ELSE 0

\* The index of the last partition of the manifest with the name, 0 when
\* there is none: the loop that assigns at every match and does not break.
LastNamed(partitions, name) ==
    IF \E i \in 1..Len(partitions) : partitions[i].partition_name = name
    THEN CHOOSE i \in 1..Len(partitions) :
            /\ partitions[i].partition_name = name
            /\ \A j \in (i + 1)..Len(partitions) :
                  partitions[j].partition_name # name
    ELSE 0

\* A selection that takes whichever of init_boot and boot the manifest
\* lists first.
SelectPartitionInOrder(partitions, partition_name) ==
    IF partition_name = <<>>
    THEN IF \E i \in 1..Len(partitions) : partitions[i].partition_name \in {INIT_BOOT, BOOT}
         THEN CHOOSE i \in 1..Len(partitions) :
                 /\ partitions[i].partition_name \in {INIT_BOOT, BOOT}
                 /\ \A j \in 1..(i - 1) : partitions[j].partition_name \notin {INIT_BOOT, BOOT}
         ELSE 0
    ELSE FirstNamed(partitions, partition_name)

\* The partition closure of doExtractBootFromPayload: the index of the
\* partition to extract, 0 where the code ends in log.Fatalln.
SelectPartition(partitions, partition_name) ==
    IF partition_name = <<>>
    THEN IF LastNamed(partitions, INIT_BOOT) # 0
         THEN LastNamed(partitions, INIT_BOOT)
         ELSE LastNamed(partitions, BOOT)
    ELSE FirstNamed(partitions, partition_name)

\* fmt.Sprintf("%s.img", name) when no out_path is given
OutPathOr(out_path, name) ==
    IF out_path = <<>> THEN name \o Str(<<".", "i", "m", "g">>) ELSE out_path

\* The reader of the payload: the bytes behind the manifest, the position
\* in them, and whether the descriptor can seek (a file can, a pipe on
\* stdin cannot).
Reader(stream, pos, seekable) ==
    [stream |-> stream, pos |-> pos, seekable |-> seekable]

\* reader.Seek(n, io.SeekCurrent), its error dropped: a pipe, and a move
\* before the start of a file, leave the position where it was.
SeekCurrent(r, n) ==
    IF r.seekable /\ r.pos + n >= 0 THEN [r EXCEPT !.pos = @ + n] ELSE r

\* reader.Read(buf) with len(buf) = n, its results dropped: the bytes that
\* are there, at most n of them.
ReadUpTo(r, n) ==
    IF r.pos >= Len(r.stream) THEN <<>>
    ELSE SubSeq(r.stream, r.pos + 1, IF r.pos + n > Len(r.stream) THEN Len(r.stream) ELSE r.pos + n)

\* out_file.Seek(off, io.SeekStart) and out_file.Write(buf) on the bytes
\* of the file: a gap is zeros, and nothing written leaves the file alone.
WriteAt(bytes, off, buf) ==
    IF buf = <<>> THEN bytes
    ELSE [i \in 1..(IF off + Len(buf) > Len(bytes) THEN off + Len(buf) ELSE Len(bytes)) |->
            IF i > off /\ i <= off + Len(buf) THEN buf[i - off]
            ELSE IF i <= Len(bytes) THEN bytes[i] ELSE 0]

\* The orders sort.Slice can leave the operations in: ascending by
\* GetDataOffset, operations with equal offsets in any order.
SortedByDataOffset(operations) ==
    {s \in {[i \in 1..Len(operations) |-> operations[p[i]]] : p \in Permutations(1..Len(operations))} :
        \A i \in 1..(Len(s) - 1) : GetDataOffset(s[i]) <= GetDataOffset(s[i + 1])}

\* COMPRESSED(fmt)
COMPRESSED(t) == t >= GZIP /\ t < LZOP

\* A payload file: the header fields, the manifest (its block size and its
\* partitions), the manifest signature and the data section.
Payload(magic, version, manifest_len, minor_version, block_size, partitions, sig, data) ==
    [magic |-> magic, version |-> version, manifest_len |-> manifest_len,
     minor_version |-> minor_version, block_size |-> block_size,
     partitions |-> partitions, sig |-> sig, data |-> data]

\* The locals of a call of ExtractBootFromPayload, and what the call has
\* done last: the operation it looked at, where in the data section the
\* reader stood when the operation's bytes were read, the bytes read, and
\* whether they reached the operation's writer.
PayLocals(step, partition_name, out_path, part, reader, operations, curr_data_offset, operation, at, buf, wrote, err) ==
    [step |-> step, partition_name |-> partition_name, out_path |-> out_path,
     part |-> part, reader |-> reader, operations |-> operations,
     curr_data_offset |-> curr_data_offset, operation |-> operation,
     at |-> at, buf |-> buf, wrote |-> wrote, err |-> err]

\* doExtractBootFromPayload returns the error, ExtractBootFromPayload logs
\* it and returns false.
PayFail(c, msg) == [c EXCEPT !.step = "done", !.err = msg]

\* What the header checks say about a payload, "" when they pass.
HeaderError(p) ==
    IF p.magic # PAYLOAD_MAGIC THEN "invalid magic"
    ELSE IF p.version # 2 THEN "unsupported version"
    ELSE IF p.manifest_len = 0 THEN "mainfest length is zero"
    ELSE IF Len(p.sig) = 0 THEN "manifest signature length is zero"
    ELSE IF p.minor_version # 0 THEN "delta payloads are not supported"
    ELSE ""

\* The ZERO case: every destination extent gets num_blocks zero bytes at
\* start_block * block_size.
RECURSIVE ZeroExtents(_, _, _)
ZeroExtents(bytes, exts, block_size) ==
    IF exts = <<>> THEN bytes
    ELSE ZeroExtents(WriteAt(bytes, exts[1].start_block * block_size, Fill(exts[1].num_blocks, 0)), Tail(exts), block_size)

\* The input of the driver: the three arguments, whether stdin is a pipe,
\* and the payload behind in_path.
PayData == <<11, 12, 13, 14, 15, 16>>
PaySig == <<99, 98>>

\* S6: a REPLACE at block 0 with the first blob of the data section, and a
\* ZERO at block 2 that carries no data.
BootUpdate ==
    PartitionUpdate(BOOT, <<InstallOperation("REPLACE", <<0>>, <<2>>, <<Extent(0, 1)>>),
                            InstallOperation("ZERO", <<2>>, <<0>>, <<Extent(2, 1)>>)>>)

\* The same shape later in the data section, the ZERO with a blob of its
\* own and listed first.
InitBootUpdate ==
    PartitionUpdate(INIT_BOOT, <<InstallOperation("ZERO", <<4>>, <<1>>, <<Extent(2, 2)>>),
                                 InstallOperation("REPLACE", <<2>>, <<2>>, <<Extent(0, 1)>>)>>)

\* An operation without data_offset behind a good one.
VendorBootUpdate ==
    PartitionUpdate(Str(<<"v", "e", "n", "d", "o", "r", "_", "b", "o", "o", "t">>), <<InstallOperation("REPLACE", <<3>>, <<1>>, <<Extent(0, 1)>>),
                                       InstallOperation("REPLACE", <<>>, <<2>>, <<Extent(1, 1)>>)>>)

\* An operation without data_length.
SystemUpdate ==
    PartitionUpdate(Str(<<"s", "y", "s", "t", "e", "m">>), <<InstallOperation("REPLACE", <<1>>, <<>>, <<Extent(0, 1)>>)>>)

DtboUpdate ==
    PartitionUpdate(Str(<<"d", "t", "b", "o">>), <<InstallOperation("REPLACE_XZ", <<1>>, <<2>>, <<Extent(0, 1)>>)>>)

VbmetaUpdate ==
    PartitionUpdate(Str(<<"v", "b", "m", "e", "t", "a">>), <<InstallOperation("SOURCE_COPY", <<1>>, <<1>>, <<Extent(0, 1)>>)>>)

\* An operation without destination extents.
OdmUpdate ==
    PartitionUpdate(Str(<<"o", "d", "m">>), <<InstallOperation("REPLACE", <<2>>, <<1>>, <<>>)>>)

\* Every order of every choice among the three boot partitions, and one
\* manifest with the other partitions.
Arrangements(S) ==
    UNION {{[i \in 1..Cardinality(T) |-> p[i]] : p \in {q \in [1..Cardinality(T) -> T] : \A i, j \in 1..Cardinality(T) : q[i] = q[j] => i = j}} : T \in SUBSET S}

Manifests ==
    Arrangements({InitBootUpdate, BootUpdate, VendorBootUpdate})
        \cup {<<SystemUpdate, DtboUpdate, BootUpdate, VbmetaUpdate, OdmUpdate>>}

PartitionArgs ==
    {<<>>, BOOT, INIT_BOOT, BOOT \o <<ByteSpace>>, Str(<<"v", "e", "n", "d", "o", "r", "_", "b", "o", "o", "t">>), Str(<<"s", "y", "s", "t", "e", "m">>), Str(<<"d", "t", "b", "o">>), Str(<<"v", "b", "m", "e", "t", "a">>), Str(<<"o", "d", "m">>)}

OutPathArgs == {<<>>, Str(<<"o", "u", "t", ".", "i", "m", "g">>)}

GoodPayloads == {Payload(PAYLOAD_MAGIC, 2, 1, 0, 2, m, PaySig, PayData) : m \in Manifests}

BadPayloads ==
    {Payload(Str(<<"C", "r", "A", "X">>), 2, 1, 0, 2, <<BootUpdate>>, PaySig, PayData),
     Payload(PAYLOAD_MAGIC, 1, 1, 0, 2, <<BootUpdate>>, PaySig, PayData),
     Payload(PAYLOAD_MAGIC, 2, 0, 0, 2, <<BootUpdate>>, PaySig, PayData),
     Payload(PAYLOAD_MAGIC, 2, 1, 1, 2, <<BootUpdate>>, PaySig, PayData),
     Payload(PAYLOAD_MAGIC, 2, 1, 0, 2, <<BootUpdate>>, <<>>, PayData)}

PayInit ==
    /\ \E payload \in GoodPayloads \cup BadPayloads :
       \E partition \in PartitionArgs : \E out_path \in OutPathArgs :
       \E in_path \in {Str(<<"-">>), Str(<<"p", "a", "y", "l", "o", "a", "d", ".", "b", "i", "n">>)} : \E pipe \in BOOLEAN :
          /\ in_path = Str(<<"p", "a", "y", "l", "o", "a", "d", ".", "b", "i", "n">>) => ~pipe
          /\ fin = [in_path |-> in_path, partition |-> partition, out_path |-> out_path, pipe |-> pipe, payload |-> payload]
          /\ cst = PayLocals("begin", TrimRightSpace(partition), TrimRightSpace(out_path), 0,
                             Reader(payload.sig \o payload.data, 0, ~(in_path = Str(<<"-">>) /\ pipe)),
                             <<>>, 0, NoOperation, 0, <<>>, FALSE, "")
    /\ fs = NoFiles
    /\ fout = <<>>
    /\ fdone = "none"

\* ExtractBootFromPayload up to the loop over the operations: the header
\* and the manifest are read and checked, the partition is selected, the
\* output is created, the manifest signature is skipped and the operations
\* are sorted.
PayBegin ==
    /\ cst.step = "begin"
    /\ LET p == fin.payload
           part == SelectPartition(p.partitions, cst.partition_name)
           out == OutPathOr(cst.out_path, p.partitions[part].partition_name)
       IN  IF HeaderError(p) # ""
           THEN cst' = PayFail(cst, HeaderError(p)) /\ fs' = fs
           ELSE IF part = 0
           THEN cst' = [cst EXCEPT !.step = "fatal", !.err = "partition not found"] /\ fs' = fs
           ELSE /\ fs' = Create(fs, out)
                /\ \E operations \in SortedByDataOffset(p.partitions[part].operations) :
                      cst' = [cst EXCEPT !.step = "ops", !.part = part, !.out_path = out,
                                         !.reader = SeekCurrent(cst.reader, Len(p.sig)),
                                         !.operations = operations]
    /\ UNCHANGED <<fin, fout, fdone, cpioVars, normVars, cliVars>>

\* DecompressToFd(buf, out_file) behind out_file.Seek(out_offset): CheckFmt
\* on the blob, then the decoder of the format, whose result is the
\* library's: it fails fatally or gives some bytes.
PayDecompress(c, buf, out_offset) ==
    \E r \in {CheckFmt(Slice(buf, <<>>))} :
        IF r.panic
        THEN cst' = [c EXCEPT !.step = "panic"] /\ fs' = fs
        ELSE IF ~COMPRESSED(r.val)
        THEN cst' = PayFail(c, "decompression failed") /\ fs' = fs
        ELSE \/ cst' = [c EXCEPT !.step = "fatal", !.err = "decode"] /\ fs' = fs
             \/ \E d \in {<<>>, PayData} :
                   /\ cst' = [c EXCEPT !.wrote = TRUE]
                   /\ fs' = [fs EXCEPT ![c.out_path] = WriteAt(@, out_offset, d)]

\* One pass of the loop over the sorted operations.
PayOperation ==
    /\ cst.step = "ops"
    /\ cst.operations # <<>>
    /\ LET operation == Head(cst.operations)
           data_len == GetDataLength(operation)
           data_offset == GetDataOffset(operation)
           block_size == fin.payload.block_size
           seeked == SeekCurrent(cst.reader, data_offset - cst.curr_data_offset)
           got == ReadUpTo(seeked, data_len)
           buf == Pad(got, data_len, 0)
           c0 == [cst EXCEPT !.operations = Tail(@), !.operation = operation, !.wrote = FALSE]
           c1 == [c0 EXCEPT !.reader = [seeked EXCEPT !.pos = @ + Len(got)],
                            !.at = seeked.pos - Len(fin.payload.sig),
                            !.buf = buf,
                            !.curr_data_offset = data_offset + data_len]
           exts == operation.dst_extents
       IN  IF data_len = 0
           THEN cst' = PayFail(c0, "data length not found") /\ fs' = fs
           ELSE IF data_offset = 0
           THEN cst' = PayFail(c0, "data offset not found") /\ fs' = fs
           ELSE IF exts = <<>>
           THEN cst' = [c1 EXCEPT !.step = "panic"] /\ fs' = fs
           ELSE CASE operation.type = "REPLACE" ->
                       /\ cst' = [c1 EXCEPT !.wrote = TRUE]
                       /\ fs' = [fs EXCEPT ![cst.out_path] = WriteAt(@, exts[1].start_block * block_size, buf)]
                  [] operation.type = "ZERO" ->
                       /\ cst' = [c1 EXCEPT !.wrote = TRUE]
                       /\ fs' = [fs EXCEPT ![cst.out_path] = ZeroExtents(@, exts, block_size)]
                  [] operation.type \in {"REPLACE_BZ", "REPLACE_XZ"} ->
                       PayDecompress(c1, buf, exts[1].start_block * block_size)
                  [] OTHER ->
                       cst' = PayFail(c1, "unsupported operation type") /\ fs' = fs
    /\ UNCHANGED <<fin, fout, fdone, cpioVars, normVars, cliVars>>

\* The loop is over: doExtractBootFromPayload returns nil and
\* ExtractBootFromPayload true.
PayReturn ==
    /\ cst.step = "ops"
    /\ cst.operations = <<>>
    /\ cst' = [cst EXCEPT !.step = "done"]
    /\ UNCHANGED <<fin, fout, fdone, fs, cpioVars, normVars, cliVars>>

InitPay == PayInit /\ CpioIdle /\ NormIdle /\ CliIdle

NextPay == PayBegin \/ PayOperation \/ PayReturn

SpecPay == InitPay /\ [][NextPay]_vars

\* C22: payload partition selection.  With a partition name supplied,
\* extraction uses the partition of exactly that name, or fails without
\* creating an output file when the manifest has none; with no name it
\* uses init_boot if the manifest has one, otherwise boot, otherwise it
\* fails, whatever the order of the partitions in the manifest; the output
\* path defaults to the selected partition's name followed by .img.
C22_PartitionSelection ==
    (cst.step # "begin" /\ HeaderError(fin.payload) = "") =>
        LET partitions == fin.payload.partitions
            names == {partitions[i].partition_name : i \in DOMAIN partitions}
            wanted == IF cst.partition_name # <<>> THEN cst.partition_name
                      ELSE IF INIT_BOOT \in names THEN INIT_BOOT ELSE BOOT
        IN  IF wanted \in names
            THEN /\ cst.part \in DOMAIN partitions
                 /\ partitions[cst.part].partition_name = wanted
                 /\ cst.out_path = (IF TrimRightSpace(fin.out_path) = <<>> THEN wanted \o Str(<<".", "i", "m", "g">>) ELSE TrimRightSpace(fin.out_path))
                 /\ cst.out_path \in DOMAIN fs
            ELSE cst.step = "fatal" /\ fs = NoFiles

\* C22 witness: no name supplied, boot listed before init_boot, and the
\* call works on init_boot into init_boot.img.
C22_Witness ==
    /\ cst.step = "ops"
    /\ cst.partition_name = <<>>
    /\ fin.out_path = <<>>
    /\ Len(fin.payload.partitions) >= 2
    /\ fin.payload.partitions[1].partition_name = BOOT
    /\ fin.payload.partitions[cst.part].partition_name = INIT_BOOT
    /\ cst.out_path = Str(<<"i", "n", "i", "t", "_", "b", "o", "o", "t", ".", "i", "m", "g">>)
    /\ cst.out_path \in DOMAIN fs

\* The call is over: it returned, or the process ended.
PayEnded == cst.step \in {"done", "fatal", "panic"}

\* The operations are a REPLACE at block 0 and a ZERO, both with their
\* data fields set and with destination extents.
ReplaceThenZero(operations) ==
    /\ Len(operations) = 2
    /\ \A i \in 1..2 :
          /\ operations[i].data_offset # <<>>
          /\ operations[i].data_length # <<>>
          /\ operations[i].dst_extents # <<>>
    /\ \E r \in 1..2 :
          /\ operations[r].type = "REPLACE"
          /\ operations[r].dst_extents[1].start_block = 0
          /\ operations[3 - r].type = "ZERO"

\* C23: for a well-formed full payload whose selected partition is a
\* REPLACE at block 0 and a ZERO at block N, extraction succeeds, the
\* output begins with the data_length bytes of the REPLACE blob, and every
\* destination extent of the ZERO holds num_blocks zero bytes from
\* start_block * block_size on.
C23_ReplaceAndZero ==
    (/\ PayEnded
     /\ HeaderError(fin.payload) = ""
     /\ cst.part # 0
     /\ ReplaceThenZero(fin.payload.partitions[cst.part].operations))
    => LET operations == fin.payload.partitions[cst.part].operations
           r == CHOOSE i \in 1..2 : operations[i].type = "REPLACE"
           zero == operations[3 - r]
           off == operations[r].data_offset[1]
           len == operations[r].data_length[1]
           out == fs[cst.out_path]
       IN  /\ cst.step = "done"
           /\ cst.err = ""
           /\ Len(out) >= len
           /\ SubSeq(out, 1, len) = SubSeq(fin.payload.data, off + 1, off + len)
           /\ \A e \in DOMAIN zero.dst_extents :
                 \A k \in 1..zero.dst_extents[e].num_blocks :
                    LET at == zero.dst_extents[e].start_block * fin.payload.block_size + k
                    IN  at <= Len(out) /\ out[at] = 0

\* C24: an operation of the selected partition is rejected as an invalid
\* payload for a missing data field if and only if its data_offset or its
\* data_length is not set; a field set to 0 is not a missing field.
C24_MissingDataFields ==
    cst.operation # NoOperation =>
        (cst.err \in {"data length not found", "data offset not found"}
            <=> (cst.operation.data_offset = <<>> \/ cst.operation.data_length = <<>>))

\* C27: the bytes handed to the writer of an operation are the bytes
\* [data_offset, data_offset + data_length) of the data section behind the
\* manifest signature, whatever the order of the operations in the
\* manifest and whether the payload comes from a file or from stdin; and
\* before each operation the reader stands curr_data_offset bytes into the
\* data section.
C27_DataWindow ==
    /\ (cst.wrote /\ cst.operation.type = "REPLACE") =>
          /\ cst.at = GetDataOffset(cst.operation)
          /\ cst.buf = SubSeq(fin.payload.data, GetDataOffset(cst.operation) + 1, GetDataOffset(cst.operation) + GetDataLength(cst.operation))
    /\ cst.step = "ops" =>
          cst.reader.pos - Len(fin.payload.sig) = cst.curr_data_offset

(***************************************************************************)
(* Boot image headers                                                      *)
(***************************************************************************)

\* A struct is the sequence of its fields, a field its element count and
\* element width in bytes; an embedded struct contributes its fields.
U8(n) == <<[n |-> n, w |-> 1]>>
U32(n) == <<[n |-> n, w |-> 4]>>
U64(n) == <<[n |-> n, w |-> 8]>>

AVB_FOOTER_MAGIC_LEN == 4
AVB_MAGIC_LEN == 4
AVB_RELEASE_STRING_SIZE == 48
BOOT_MAGIC_SIZE == 8
BOOT_NAME_SIZE == 16
BOOT_ID_SIZE == 32
BOOT_ARGS_SIZE == 512
BOOT_EXTRA_ARGS_SIZE == 1024
VENDOR_BOOT_ARGS_SIZE == 2048

MtkHdr == U32(1) \o U32(1) \o U8(32) \o U8(472)

DhtbHdr == U8(8) \o U8(40) \o U32(1) \o U8(460)

BlobHdr ==
    U8(20) \o U32(1) \o U32(1) \o U8(16) \o U32(1) \o U32(1) \o U32(1)
        \o U32(1) \o U32(7) \o U8(4) \o U32(1) \o U32(1) \o U32(1)

ZimageHdr == U32(9) \o U32(1) \o U32(1) \o U32(1) \o U32(1)

AvbFooter ==
    U8(AVB_FOOTER_MAGIC_LEN) \o U32(1) \o U32(1) \o U64(1) \o U64(1)
        \o U64(1) \o U8(28)

AvbVBMetaImageHeader ==
    U8(AVB_MAGIC_LEN) \o U32(1) \o U32(1) \o U64(1) \o U64(1) \o U32(1)
        \o U64(1) \o U64(1) \o U64(1) \o U64(1) \o U64(1) \o U64(1)
        \o U64(1) \o U64(1) \o U64(1) \o U64(1) \o U64(1)
        \o U32(1) \o U32(1) \o U8(AVB_RELEASE_STRING_SIZE) \o U8(80)

BootImgHdrV0Common ==
    U8(BOOT_MAGIC_SIZE) \o U32(1) \o U32(1) \o U32(1) \o U32(1) \o U32(1)
        \o U32(1)

BootImgHdrV0 ==
    BootImgHdrV0Common \o U32(1) \o U32(1) \o U32(1) \o U32(1)
        \o U8(BOOT_NAME_SIZE) \o U8(BOOT_ARGS_SIZE) \o U8(BOOT_ID_SIZE)
        \o U8(BOOT_EXTRA_ARGS_SIZE)

BootImgHdrV1 == BootImgHdrV0 \o U32(1) \o U64(1) \o U32(1)

BootImgHdrV2 == BootImgHdrV1 \o U32(1) \o U64(1)

BootImgHdrPxa ==
    BootImgHdrV0Common \o U32(1) \o U32(1) \o U32(1) \o U32(1) \o U8(24)
        \o U8(BOOT_ARGS_SIZE) \o U8(BOOT_ID_SIZE) \o U8(BOOT_EXTRA_ARGS_SIZE)

BootImgHdrV3 ==
    U8(BOOT_MAGIC_SIZE) \o U32(1) \o U32(1) \o U32(1) \o U32(1) \o U32(4)
        \o U32(1) \o U8(BOOT_ARGS_SIZE + BOOT_EXTRA_ARGS_SIZE)

BootImgHdrVndV3 ==
    U8(BOOT_MAGIC_SIZE) \o U32(1) \o U32(1) \o U32(1) \o U32(1) \o U32(1)
        \o U8(VENDOR_BOOT_ARGS_SIZE) \o U32(1) \o U8(BOOT_NAME_SIZE)
        \o U32(1) \o U32(1) \o U64(1)

BootImgHdrV4 == BootImgHdrV3 \o U32(1)

BootImgHdrVndV4 == BootImgHdrVndV3 \o U32(1) \o U32(1) \o U32(1) \o U32(1)

\* fdtHeader: ten 32-bit words
fdtHeader == U32(1) \o U32(1) \o U32(1) \o U32(1) \o U32(1) \o U32(1) \o U32(1) \o U32(1) \o U32(1) \o U32(1)

\* The structures TestAlign measures, by name.
Headers ==
    [MtkHdr |-> MtkHdr, DhtbHdr |-> DhtbHdr, BlobHdr |-> BlobHdr,
     ZimageHdr |-> ZimageHdr, AvbFooter |-> AvbFooter,
     AvbVBMetaImageHeader |-> AvbVBMetaImageHeader,
     BootImgHdrV0 |-> BootImgHdrV0, BootImgHdrV1 |-> BootImgHdrV1,
     BootImgHdrV2 |-> BootImgHdrV2, BootImgHdrPxa |-> BootImgHdrPxa,
     BootImgHdrV3 |-> BootImgHdrV3, BootImgHdrV4 |-> BootImgHdrV4,
     BootImgHdrVndV3 |-> BootImgHdrVndV3, BootImgHdrVndV4 |-> BootImgHdrVndV4]

\* n rounded up to a multiple of a
RoundUp(n, a) == ((n + a - 1) \div a) * a

\* The size of the struct in memory: every field at a multiple of its
\* element width, the whole a multiple of eight.
RECURSIVE AlignedFrom(_, _, _)
AlignedFrom(fields, i, at) ==
    IF i > Len(fields) THEN RoundUp(at, 8)
    ELSE AlignedFrom(fields, i + 1, RoundUp(at, fields[i].w) + fields[i].n * fields[i].w)

RECURSIVE SizeFrom(_, _, _)
SizeFrom(fields, i, at) ==
    IF i > Len(fields) THEN at
    ELSE SizeFrom(fields, i + 1, at + fields[i].n * fields[i].w)

AlignedSize(fields) == AlignedFrom(fields, 1, 0)

\* binary.Size(v): the bytes binary.Write would emit, the widths of the
\* fields summed with no padding.
BinarySize(fields) == SizeFrom(fields, 1, 0)

(***************************************************************************)
(* split <file>: SplitImageDtb, findDtbOffset, checkFmtLg                  *)
(***************************************************************************)

KERNEL_FILE == Str(<<"k", "e", "r", "n", "e", "l">>)
KER_DTB_FILE == Str(<<"k", "e", "r", "n", "e", "l", "_", "d", "t", "b">>)

\* The device-tree magic findDtbOffset looks for.
FDT_MAGIC == <<208, 13, 254, 237>>

\* bytes.Index(s, sep): the offset of the first occurrence, -1 when there
\* is none.
BytesIndex(s, sep) ==
    IF \E i \in 0..(Len(s) - Len(sep)) : SubSeq(s, i + 1, i + Len(sep)) = sep
    THEN CHOOSE i \in 0..(Len(s) - Len(sep)) :
            /\ SubSeq(s, i + 1, i + Len(sep)) = sep
            /\ \A j \in 0..(i - 1) : SubSeq(s, j + 1, j + Len(sep)) # sep
    ELSE -1

\* binary.Read of one uint32 from the bytes at offset at, in either byte
\* order, its error dropped: a read that cannot get four bytes leaves the
\* zero the variable held.  A word of 2^31 or more is held as MaxInt32:
\* the code compares words with 1 and with sizes of mappings, which are
\* below it.
Word32(b3, b2, b1, b0) ==
    IF b3 >= 128 THEN MaxInt32 ELSE ((b3 * 256 + b2) * 256 + b1) * 256 + b0

BigEndian32(s, at) ==
    IF at + 4 > Len(s) THEN 0
    ELSE Word32(s[at + 1], s[at + 2], s[at + 3], s[at + 4])

LittleEndian32(s, at) ==
    IF at + 4 > Len(s) THEN 0
    ELSE Word32(s[at + 4], s[at + 3], s[at + 2], s[at + 1])

\* binary.Read of the fdtHeader at curr, its error dropped: with fewer
\* bytes than the header has, every field stays zero.
ReadFdtHeader(fmap, curr) ==
    IF curr + BinarySize(fdtHeader) > Len(fmap)
    THEN [TotalSize |-> 0, OffDtStruct |-> 0]
    ELSE [TotalSize |-> BigEndian32(fmap, curr + 4), OffDtStruct |-> BigEndian32(fmap, curr + 8)]

\* The checks of findDtbOffset on the header at curr.
FdtValidAt(fmap, curr, end) ==
    /\ ReadFdtHeader(fmap, curr).TotalSize <= end - curr
    /\ ReadFdtHeader(fmap, curr).OffDtStruct <= end - curr
    /\ BigEndian32(fmap, curr + ReadFdtHeader(fmap, curr).OffDtStruct) = 1

\* How far the loop of findDtbOffset moves on.
FdtStride == 40

\* The locals of the running call: of SplitImageDtb (off, exit), of
\* findDtbOffset (curr), of checkFmtLg (f, lgoff), and the result of
\* binary.Size.
ImgLocals(step, caller, curr, off, f, lgoff, code, size) ==
    [step |-> step, caller |-> caller, curr |-> curr, off |-> off, f |-> f,
     lgoff |-> lgoff, exit |-> code, size |-> size]

\* dump(buf, size, filename): nothing for size 0, else the file is created
\* and gets the first size bytes of buf.
dump(files, buf, size, filename) ==
    IF size = 0 THEN files
    ELSE [p \in DOMAIN files \cup {filename} |->
            IF p = filename THEN SubSeq(buf, 1, size) ELSE files[p]]

\* What a decoder of the library can leave in the file it copies to.
Decoded == {<<>>, <<1>>}

\* SplitImageDtb behind checkFmtLg: the kernel is decompressed or dumped,
\* the rest is kernel_dtb, and the call returns 0.
SplitWrite(c, f) ==
    /\ cst' = [c EXCEPT !.step = "done", !.f = f, !.exit = 0]
    /\ IF ~fin.skip_decomp /\ COMPRESSED(f)
       THEN \E d \in Decoded :
               fs' = dump([p \in DOMAIN fs \cup {KERNEL_FILE} |-> IF p = KERNEL_FILE THEN d ELSE fs[p]],
                          SubSeq(fin.img, c.off + 1, Len(fin.img)), Len(fin.img) - c.off, KER_DTB_FILE)
       ELSE fs' = dump(dump(fs, fin.img, c.off, KERNEL_FILE),
                       SubSeq(fin.img, c.off + 1, Len(fin.img)), Len(fin.img) - c.off, KER_DTB_FILE)

\* checkFmtLg returns f to its caller.
ReturnFmt(c, f) ==
    IF c.caller = "SplitImageDtb" THEN SplitWrite(c, f)
    ELSE cst' = [c EXCEPT !.step = "done", !.f = f] /\ fs' = fs

\* checkFmtLg up to its loop: CheckFmt on the mapping, and the loop only
\* for LZ4_LEGACY.
EnterCheckFmtLg(c) ==
    \E r \in {CheckFmt(Slice(fin.img, <<>>))} :
        IF r.panic THEN cst' = [c EXCEPT !.step = "panic"] /\ fs' = fs
        ELSE IF r.val = LZ4_LEGACY
        THEN cst' = [c EXCEPT !.step = "lg", !.f = r.val, !.lgoff = 4] /\ fs' = fs
        ELSE ReturnFmt(c, r.val)

\* SplitImageDtb up to the call of findDtbOffset: the file is opened and
\* mapped.
CallSplitImageDtb ==
    /\ cst.step = "idle"
    /\ fin.kind = "split"
    /\ cst' = [cst EXCEPT !.step = "find", !.caller = "SplitImageDtb", !.curr = 0]
    /\ fdone' = "SplitImageDtb"
    /\ UNCHANGED <<fin, fout, fs, cpioVars, normVars, cliVars>>

\* The test of the loop of findDtbOffset: with curr behind the mapping the
\* function returns -1 and SplitImageDtb 1.
findDtbOffsetTest ==
    /\ cst.step = "find"
    /\ cst' = IF cst.curr < Len(fin.img) THEN [cst EXCEPT !.step = "body"]
              ELSE [cst EXCEPT !.step = "done", !.off = -1, !.exit = 1]
    /\ UNCHANGED <<fin, fout, fdone, fs, cpioVars, normVars, cliVars>>

\* The body of the loop of findDtbOffset: curr becomes the offset of the
\* first magic of the whole mapping; a header that fails a check goes on
\* with the next pass, FdtStride further; when the function returns,
\* SplitImageDtb goes on with its result.
findDtbOffsetBody ==
    /\ cst.step = "body"
    /\ LET end == Len(fin.img)
           curr == BytesIndex(fin.img, FDT_MAGIC)
       IN  IF curr # -1 /\ ~FdtValidAt(fin.img, curr, end)
           THEN cst' = [cst EXCEPT !.step = "find", !.curr = curr + FdtStride] /\ fs' = fs
           ELSE IF curr > 0
           THEN EnterCheckFmtLg([cst EXCEPT !.curr = curr, !.off = curr])
           ELSE cst' = [cst EXCEPT !.step = "done", !.curr = curr, !.off = curr, !.exit = 1] /\ fs' = fs
    /\ UNCHANGED <<fin, fout, fdone, cpioVars, normVars, cliVars>>

\* checkFmtLg called on a buffer.
CallCheckFmtLg ==
    /\ cst.step = "idle"
    /\ fin.kind = "checkFmtLg"
    /\ EnterCheckFmtLg([cst EXCEPT !.caller = "checkFmtLg"])
    /\ fdone' = "checkFmtLg"
    /\ UNCHANGED <<fin, fout, cpioVars, normVars, cliVars>>

\* The body of the loop of checkFmtLg: with more than four bytes left a
\* block size is read and the block stepped over, or LZ4_LG returned when
\* the block ends behind the buffer; otherwise the body does nothing.
checkFmtLgStep ==
    /\ cst.step = "lg"
    /\ LET sz == Len(fin.img)
           block_sz == LittleEndian32(fin.img, cst.lgoff)
       IN  IF cst.lgoff + 4 < sz
           THEN IF block_sz > sz - (cst.lgoff + 4)
                THEN ReturnFmt([cst EXCEPT !.lgoff = @ + 4], LZ4_LG)
                ELSE cst' = [cst EXCEPT !.step = "lgend", !.lgoff = @ + 4 + block_sz] /\ fs' = fs
           ELSE cst' = [cst EXCEPT !.step = "lgend"] /\ fs' = fs
    /\ UNCHANGED <<fin, fout, fdone, cpioVars, normVars, cliVars>>

\* The end of the body: the loop has no condition and no break, and goes
\* round.
checkFmtLgAgain ==
    /\ cst.step = "lgend"
    /\ cst' = [cst EXCEPT !.step = "lg"]
    /\ UNCHANGED <<fin, fout, fdone, fs, cpioVars, normVars, cliVars>>

\* binary.Size on a header structure, as TestAlign calls it.
DoBinarySize ==
    /\ cst.step = "idle"
    /\ fin.kind = "Size"
    /\ cst' = [cst EXCEPT !.step = "done", !.caller = "Size", !.size = BinarySize(Headers[fin.hdr])]
    /\ fdone' = "Size"
    /\ UNCHANGED <<fin, fout, fs, cpioVars, normVars, cliVars>>

\* A 32-bit word below 65536 in the two byte orders.
BE32(n) == <<0, 0, n \div 256, n % 256>>
LE32(n) == <<n % 256, n \div 256, 0, 0>>

\* A device-tree blob of the least size: the header, then the first
\* structure tag.
Fdt(totalsize, off_dt_struct, tag) ==
    FDT_MAGIC \o BE32(totalsize) \o BE32(off_dt_struct) \o Fill(28, 0) \o BE32(tag)

\* What can stand where the device tree is expected: nothing, a blob, a
\* blob whose first tag is wrong, a blob longer than the file, and a bare
\* magic.
Blobs == {<<>>, Fdt(44, 40, 1), Fdt(44, 40, 2), Fdt(9999, 40, 1), FDT_MAGIC \o <<0, 0>>}

\* A legacy lz4 stream: the magic and the records, each a size and a
\* block.
Lz4Block == <<16, 1, 2, 3, 4, 5, 6, 7, 8>>

\* What can stand in front: nothing, a raw kernel, a gzip stream, legacy
\* lz4 streams of one and of two blocks, one with an lz4_lg trailer, and
\* one whose block is cut short.
Kernels ==
    {<<>>,
     <<77, 90, 0, 0, 0, 0, 0, 0, 0, 0, 0, 0, 0, 0, 0, 0>>,
     GZIP1_MAGIC \o <<8, 0, 0, 0, 0, 0, 0, 0, 0, 0, 0, 0, 0, 0>>,
     LZ4_LEG_MAGIC \o LE32(9) \o Lz4Block,
     LZ4_LEG_MAGIC \o LE32(9) \o Lz4Block \o LE32(9) \o Lz4Block,
     LZ4_LEG_MAGIC \o LE32(9) \o Lz4Block \o LE32(8),
     LZ4_LEG_MAGIC \o LE32(300) \o Lz4Block}

Images == {k \o b \o t : k \in Kernels, b \in Blobs, t \in {<<>>, Fdt(44, 40, 1)}} \ {<<>>}

ImgInit ==
    /\ \/ \E img \in Images : \E skip_decomp \in BOOLEAN :
             fin = [kind |-> "split", img |-> img, skip_decomp |-> skip_decomp, hdr |-> "MtkHdr"]
       \/ \E img \in Images :
             fin = [kind |-> "checkFmtLg", img |-> img, skip_decomp |-> FALSE, hdr |-> "MtkHdr"]
       \/ \E hdr \in DOMAIN Headers :
             fin = [kind |-> "Size", img |-> <<>>, skip_decomp |-> FALSE, hdr |-> hdr]
    /\ cst = ImgLocals("idle", "none", 0, -1, UNKNOWN, 0, -1, 0)
    /\ fs = NoFiles
    /\ fout = <<>>
    /\ fdone = "none"

InitImg == ImgInit /\ CpioIdle /\ NormIdle /\ CliIdle

NextImg ==
    \/ CallSplitImageDtb
    \/ findDtbOffsetTest
    \/ findDtbOffsetBody
    \/ CallCheckFmtLg
    \/ checkFmtLgStep
    \/ checkFmtLgAgain
    \/ DoBinarySize

SpecImg == InitImg /\ [][NextImg]_vars

\* The program runs on for as long as it has a step to take.
SpecImgFair == SpecImg /\ WF_vars(NextImg)

\* C25: the serialized size of each fixed header structure, the sum of its
\* field widths with no padding, is BootImgHdrV0 1632, V1 1648, V2 1660,
\* Pxa 1640, V3 1580, V4 1584, VndV3 2112, VndV4 2128, MtkHdr 512,
\* DhtbHdr 512, BlobHdr 104, ZimageHdr 52, AvbFooter 64 and
\* AvbVBMetaImageHeader 256.
C25_HeaderSizes ==
    fdone = "Size" =>
        cst.size = [MtkHdr |-> 512, DhtbHdr |-> 512, BlobHdr |-> 104,
                    ZimageHdr |-> 52, AvbFooter |-> 64,
                    AvbVBMetaImageHeader |-> 256,
                    BootImgHdrV0 |-> 1632, BootImgHdrV1 |-> 1648,
                    BootImgHdrV2 |-> 1660, BootImgHdrPxa |-> 1640,
                    BootImgHdrV3 |-> 1580, BootImgHdrV4 |-> 1584,
                    BootImgHdrVndV3 |-> 2112, BootImgHdrVndV4 |-> 2128][fin.hdr]

\* C25 witness: binary.Size has measured BootImgHdrV2, whose 64-bit fields
\* follow 32-bit ones, as 1660 bytes.
C25_Witness == fdone = "Size" /\ fin.hdr = "BootImgHdrV2" /\ cst.size = 1660

\* The offsets in the image at which a device-tree blob stands that passes
\* the checks of findDtbOffset.
ValidDtbs(img) ==
    {c \in 0..(Len(img) - 4) :
        SubSeq(img, c + 1, c + 4) = FDT_MAGIC /\ FdtValidAt(img, c, Len(img))}

\* C26: SplitImageDtb returns for every input file: 1 when no device-tree
\* blob is found in the image, also when a DTB magic occurs but its header
\* fails validation, and 0 after kernel and kernel_dtb have been written
\* otherwise.
C26_SplitTerminates ==
    (fdone = "SplitImageDtb") ~>
        (/\ cst.step = "done"
         /\ cst.exit \in {0, 1}
         /\ ValidDtbs(fin.img) = {} => cst.exit = 1
         /\ (BytesIndex(fin.img, FDT_MAGIC) > 0 /\ BytesIndex(fin.img, FDT_MAGIC) \in ValidDtbs(fin.img)) => cst.exit = 0
         /\ cst.exit = 0 =>
               /\ KERNEL_FILE \in DOMAIN fs
               /\ KER_DTB_FILE \in DOMAIN fs
               /\ fs[KER_DTB_FILE] = SubSeq(fin.img, cst.off + 1, Len(fin.img)))

\* Walking the {u32 LE size, block} records of buf from offset off: some
\* block would end behind the buffer.
RECURSIVE BlockOverruns(_, _)
BlockOverruns(buf, off) ==
    /\ off + 4 <= Len(buf)
    /\ \/ LittleEndian32(buf, off) > Len(buf) - (off + 4)
       \/ BlockOverruns(buf, off + 4 + LittleEndian32(buf, off))

\* C29: on a buffer that starts with the legacy lz4 magic checkFmtLg
\* returns, with LZ4_LG iff walking the records from offset 4 some block's
\* end would over-run the buffer, and with LZ4_LEGACY when the blocks end
\* at the buffer's end; on every other buffer it returns CheckFmt's tag.
C29_CheckFmtLg ==
    /\ (fdone = "checkFmtLg" /\ HasPrefix(fin.img, LZ4_LEG_MAGIC)) ~>
          (/\ cst.step = "done"
           /\ cst.f = IF BlockOverruns(fin.img, 4) THEN LZ4_LG ELSE LZ4_LEGACY)
    /\ [](fdone = "checkFmtLg" /\ ~HasPrefix(fin.img, LZ4_LEG_MAGIC) /\ cst.step = "done"
            => cst.f = CheckFmt(Slice(fin.img, <<>>)).val)

(***************************************************************************)
(* compress=lz4_legacy and compress=lz4_lg: Lz4HCWriter                    *)
(***************************************************************************)

\* The input bytes the legacy format puts into one block; the code has
\* LZ4_UNCOMPRESSED = 0x800000 where its read buffer has 4096.
ChunkLen == 4

\* The output is followed up to this length: where the output is the input
\* (Fmt2Ext gives "" for LZ4_LEGACY) the loop reads what it has written
\* and the file grows without end.
MaxOut == 24

LegacyMethods == {Str(<<"l", "z", "4", "_", "l", "e", "g", "a", "c", "y">>), Str(<<"l", "z", "4", "_", "l", "g">>)}

LegacyContents == UNION {[1..n -> {120, 121}] : n \in 0..MaxData}

\* z.CompressBlock(data, z.buf) of the lz4 library, on a buffer that is
\* large enough: a short input comes back as one sequence of literals
\* behind its token; for no input the library gives either nothing or the
\* bare token.
CompressBlock(data) ==
    IF data = <<>> THEN {<<>>, <<0>>} ELSE {<<16 * Len(data)>> \o data}

Lz4Init ==
    /\ \E data \in LegacyContents : \E method \in LegacyMethods :
       \E outfile \in {<<>>, OutName} :
          /\ fs = [p \in {InName} |-> data]
          /\ cst = CompLocals("start", method, InName, outfile, UNKNOWN,
                              <<>>, FALSE, 0, <<>>, FALSE, FALSE, FALSE, data)

\* The output is created as for every method, and NewLz4HCWriter writes
\* the magic at once.
Lz4Create ==
    /\ cst.step = "opened"
    /\ LET tmp == IF cst.outfile = <<>> THEN cst.infile \o Fmt2Ext(cst.t)
                  ELSE cst.outfile
       IN /\ fs' = WriteTo(Create(fs, tmp), tmp, LZ4_LEG_MAGIC)
          /\ cst' = [cst EXCEPT !.out = tmp,
                                !.rm_in = (cst.outfile = <<>>),
                                !.began = TRUE,
                                !.step = "loop"]
    /\ UNCHANGED <<cpioVars, normVars, cliVars, funVars>>

\* One turn of the loop of Compress with the legacy writer: what Read
\* gave, also the nothing it gives at io.EOF, goes to Lz4HCWriter.Write,
\* which compresses it as one block and writes the size and the block, or
\* ends the process when the block is empty.
Lz4Write ==
    /\ cst.step = "loop"
    /\ Len(fs[cst.out]) < MaxOut
    /\ LET data == fs[cst.infile]
           l == IF Len(data) - cst.pos > BufLen THEN BufLen
                ELSE IF Len(data) > cst.pos THEN Len(data) - cst.pos ELSE 0
           chunk == SubSeq(data, cst.pos + 1, cst.pos + l)
       IN \E block \in CompressBlock(chunk) :
             IF Len(block) = 0
             THEN cst' = [cst EXCEPT !.step = "fatal"] /\ fs' = fs
             ELSE /\ fs' = WriteTo(fs, cst.out, LE32(Len(block)) \o block)
                  /\ cst' = [cst EXCEPT !.pos = cst.pos + l,
                                        !.fed = cst.fed \o chunk,
                                        !.eof = (l = 0),
                                        !.step = IF l = 0 THEN "close" ELSE "loop"]
    /\ UNCHANGED <<cpioVars, normVars, cliVars, funVars>>

\* Lz4HCWriter.Close: in_total, the bytes given to Write, follows for
\* lz4_lg; both files are closed.
Lz4Close ==
    /\ cst.step = "close"
    /\ fs' = WriteTo(fs, cst.out, IF cst.t = LZ4_LG THEN LE32(Len(cst.fed)) ELSE <<>>)
    /\ cst' = [cst EXCEPT !.closed = TRUE, !.step = "remove"]
    /\ UNCHANGED <<cpioVars, normVars, cliVars, funVars>>

InitLz4 == Lz4Init /\ CpioIdle /\ NormIdle /\ CliIdle /\ FunIdle

NextLz4 == CompOpen \/ Lz4Create \/ Lz4Write \/ Lz4Close \/ CompRemove

SpecLz4 == InitLz4 /\ [][NextLz4]_vars

\* The offset behind n records {u32 LE size, block} with sizes above 0
\* that begin at off, -1 when the bytes are not n such records.
RECURSIVE RecordsEnd(_, _, _)
RecordsEnd(bytes, off, n) ==
    IF n = 0 THEN off
    ELSE IF off + 4 > Len(bytes) \/ LittleEndian32(bytes, off) = 0
            \/ off + 4 + LittleEndian32(bytes, off) > Len(bytes)
    THEN -1
    ELSE RecordsEnd(bytes, off + 4 + LittleEndian32(bytes, off), n - 1)

\* C28: Compress with lz4_legacy or lz4_lg on a non-empty input completes
\* and has emitted exactly the magic 02 21 4C 18, one record {u32 LE
\* block_size, block_size bytes} with block_size > 0 for every chunk of
\* the input, and then for lz4_lg alone the u32 LE of the number of input
\* bytes.
C28_LegacyFraming ==
    (cst.step \in {"done", "fatal", "panic"} /\ cst.orig # <<>>) =>
        /\ cst.step = "done"
        /\ HasPrefix(fs[cst.out], LZ4_LEG_MAGIC)
        /\ LET end == RecordsEnd(fs[cst.out], 4, (Len(cst.orig) + ChunkLen - 1) \div ChunkLen)
           IN  /\ end # -1
               /\ SubSeq(fs[cst.out], end + 1, Len(fs[cst.out])) = (IF cst.t = LZ4_LG THEN LE32(Len(cst.orig)) ELSE <<>>)

(***************************************************************************)
(* cpio <file> <cmd...> on a file that does not parse                      *)
(***************************************************************************)

\* Archives that begin with the record of the directory a and go on with
\* a header whose magic is not 070701, or whose fields are not hex digits.
BrokenFiles ==
    {DumpRecord(<<>>, FirstInode, NameA, DirEntry) \o Str(<<"X", "7", "0", "7", "0", "1">>) \o Fill(hdr_sz - 6, ByteDigit0),
     DumpRecord(<<>>, FirstInode, NameA, DirEntry) \o CpioMagic \o Fill(hdr_sz - 6, ByteHash)}

\* cpio FILE COMMANDS... on such a file.
CliBrokenInit ==
    /\ Keys = <<>>
    /\ Entries = NoEntries
    /\ file \in BrokenFiles
    /\ pc = "new"
    /\ nops = 0
    /\ last = Op("NewCpio", NoArgs, NewCpio, "nil", NoOp)
    /\ hist = <<>>
    /\ cmds \in CmdLists
    /\ ci = 0
    /\ written = 0
    /\ exit = -1

InitCliBroken == CliBrokenInit /\ NormIdle /\ FunIdle /\ CompIdle

SpecCliBroken == InitCliBroken /\ [][NextCli]_vars

\* C30: when a record of the file does not start with the magic 070701 or
\* has malformed header fields, LoadFromFile returns the error, so that the
\* cpio run stops with a failure there: no command runs and the input
\* file is never written again from the partly parsed archive.
C30_ParseErrorsReachCaller ==
    (hist # <<>> /\ hist[1].op = "LoadFromFile" /\ hist[1].res \notin {"nil", "panic"}) =>
        /\ pc \notin {"loop", "done"}
        /\ exit \notin {-1, 0}
        /\ ci = 0
        /\ written = 0
        /\ file \in BrokenFiles

====
